---- MODULE Spec2Model ----
(***************************************************************************)
(* Model of the OPC UA dispatch layer of the Track & Trace Fingerprint     *)
(* interface (fp_opcua_server.py) together with its two backends           *)
(* (fp_mockup_system.py, fp_echo_system.py).                               *)
(*                                                                         *)
(* One asyncio event loop runs the service handlers, the background tasks  *)
(* created by the ASYNC handlers, the done callbacks of those tasks and    *)
(* the periodic publisher.  A step of the model is what one of them does   *)
(* between two points at which it hands control back to the loop.          *)
(***************************************************************************)
EXTENDS Integers, Sequences, FiniteSets, TLC

\* ------------------------------------------------------------------ bounds
\* Number of service calls a behaviour may contain.
MaxCalls == 2

\* Number of services the interface of the linking specification declares.
MaxServices == 3

\* Number of calls to services a behaviour of the linking specification may
\* contain.
MaxLinkCalls == 1

\* --------------------------------------------------------- program constants
FINGERPRINT_SIZE == 0

\* ------------------------------------------------------------ dict helpers
\* A Python dict with string keys is a function whose domain is its key set.
EmptyDict == <<>>

\* dict.update(other) / {**a, **b}: the keys of b win.
DictUpdate(a, b) ==
  [k \in (DOMAIN a) \cup (DOMAIN b) |-> IF k \in DOMAIN b THEN b[k] ELSE a[k]]

\* ---------------------------------------------------------- string helpers
\* Text that the code takes apart character by character is a sequence of
\* one-character strings; Str glues such a sequence into one string.
RECURSIVE Str(_)
Str(cs) == IF cs = <<>> THEN "" ELSE Head(cs) \o Str(Tail(cs))

UpperCase ==
  {"A","B","C","D","E","F","G","H","I","J","K","L","M",
   "N","O","P","Q","R","S","T","U","V","W","X","Y","Z"}

\* str.lower() of one upper-case letter.
Lower(c) ==
  ("A" :> "a" @@ "B" :> "b" @@ "C" :> "c" @@ "D" :> "d" @@ "E" :> "e" @@
   "F" :> "f" @@ "G" :> "g" @@ "H" :> "h" @@ "I" :> "i" @@ "J" :> "j" @@
   "K" :> "k" @@ "L" :> "l" @@ "M" :> "m" @@ "N" :> "n" @@ "O" :> "o" @@
   "P" :> "p" @@ "Q" :> "q" @@ "R" :> "r" @@ "S" :> "s" @@ "T" :> "t" @@
   "U" :> "u" @@ "V" :> "v" @@ "W" :> "w" @@ "X" :> "x" @@ "Y" :> "y" @@
   "Z" :> "z")[c]

\* str.lstrip('_') on a sequence of characters.
RECURSIVE LStripUnderscore(_)
LStripUnderscore(cs) ==
  IF cs # <<>> /\ Head(cs) = "_" THEN LStripUnderscore(Tail(cs)) ELSE cs

\* ''.join(['_' + c.lower() if c.isupper() else c for c in s])
RECURSIVE SnakeChars(_)
SnakeChars(cs) ==
  IF cs = <<>> THEN <<>>
  ELSE (IF Head(cs) \in UpperCase THEN <<"_", Lower(Head(cs))>> ELSE <<Head(cs)>>)
       \o SnakeChars(Tail(cs))

\* camel_to_snake(s): the name of the backend method for a service name.
camel_to_snake(cs) == Str(LStripUnderscore(SnakeChars(cs)))

\* ------------------------------------------------------------- the backends
Backends == {"mockup", "echo"}

\* bind_sensor() takes any sensor system: one with the operation methods of
\* the echo and without any <method>_prior_info.
BareBackend == "bare"

\* The operation methods both backend classes define.
BackendMethods ==
  {"reset_system", "get_status", "set_image_matching_type", "add_part", "trace_part"}

\* Mutant of HasMethod: every name is found.
HasMethod_Any(b, name) == TRUE

\* getattr(self.fp_system, name): the backend has a method of that name.
HasMethod(b, name) == name \in BackendMethods

\* getattr(self.fp_system, name + '_prior_info', None): every operation method
\* of both backends has its estimator.
HasPriorInfo(b, name) == b \in Backends /\ name \in BackendMethods

\* self.duration_estimations, in milliseconds.
duration_estimations ==
  [reset_system |-> 5, get_status |-> 10, set_image_matching_type |-> 10,
   add_part |-> 2000, trace_part |-> 2100]

\* <method>_prior_info(*args): the same four fields for every method, and no
\* access to status, databases or image matching.
PriorInfoOf(name) ==
  [ExpectedServiceExecutionDuration |-> duration_estimations[name],
   ServiceTriggerResult |-> 1,
   ServiceResultMessage |-> "",
   ServiceResultCode |-> 0]

\* Mutant of DefaultPriorInfo: the default turns the request down.
DefaultPriorInfo_Rejecting ==
  [ExpectedServiceExecutionDuration |-> 0,
   ServiceTriggerResult |-> 0,
   ServiceResultMessage |-> "no estimator",
   ServiceResultCode |-> 1]

\* The default the ASYNC handler uses when the backend has no estimator.
DefaultPriorInfo ==
  [ExpectedServiceExecutionDuration |-> -1,
   ServiceTriggerResult |-> 1,
   ServiceResultMessage |-> "",
   ServiceResultCode |-> 1]

PriorInfoFields ==
  {"ExpectedServiceExecutionDuration", "ServiceTriggerResult",
   "ServiceResultMessage", "ServiceResultCode"}

\* Number of positional parameters of the mockup's methods; the echo's
\* methods take *args and accept any number.
MockupArity ==
  [reset_system |-> 0, get_status |-> 0, set_image_matching_type |-> 1,
   add_part |-> 6, trace_part |-> 7]

\* Calling func(*input_args) binds the arguments: a TypeError when the count
\* does not fit the signature.
ArgsFit(b, name, args) == b # "mockup" \/ Len(args) = MockupArity[name]

\* ------------------------------------------------------------ DeviceStatus
\* FpStatus (fp_tcp_interface_definitions) holds the four status values.
RunStates == {"SYSTEM_READY", "ACQUIRING_IMAGE", "COMMAND_RUNNING", "SYSTEM_ERROR"}
ResultStates == {"RESULT_UNDEFINED", "RESULT_READY"}
ErrorTypes == {"NO_ERROR", "ID_DUPLICATE_FOUND", "FP_DUPLICATE_FOUND"}

\* FpStatus.update(run_state, result_state, error_type, current_command)
FpStatusUpdate(rs, res, err, cmd) ==
  [run_state |-> rs, result_state |-> res, error_type |-> err, current_command |-> cmd]

\* The run states a freshly constructed (or reset) FpStatus may carry.
FreshRunStates == {"SYSTEM_READY", "SYSTEM_ERROR"}

\* FpStatus() and FpStatus.reset(): the status of a device that has not run a
\* command yet.
FpStatusFresh(rs) == FpStatusUpdate(rs, "RESULT_UNDEFINED", "NO_ERROR", "")

\* FpStatus.as_dict(): the snapshot under the names of the State variables.
as_dict(st) ==
  [RunState |-> st.run_state, ResultState |-> st.result_state,
   ErrorType |-> st.error_type, CurrentCommand |-> st.current_command]

\* Mutant of internal_get_status: taking the snapshot resets the status.
internal_get_status_Resetting(st) ==
  [snapshot |-> as_dict(st), status |-> FpStatusFresh("SYSTEM_READY")]

\* fp_system._get_status(): returns the snapshot and leaves the status as it
\* is.
internal_get_status(st) == [snapshot |-> as_dict(st), status |-> st]

\* update_state(status): every item named RunState, ResultState, ErrorType or
\* CurrentCommand is written to the State variable of that name, others are
\* skipped.
StateVarNames == {"RunState", "ResultState", "ErrorType", "CurrentCommand"}

\* Mutant of update_state: nothing is written.
update_state_Skipped(vars_, snapshot) == vars_

update_state(vars_, snapshot) ==
  DictUpdate(vars_, [k \in (DOMAIN snapshot) \cap StateVarNames |-> snapshot[k]])

\* ---------------------------------------------------------------- nodesets
\* What the loaded interface says about one service: its name, whether a
\* <name>ServiceFinishedEventType and a <name>ServiceExecutionSyncResultDataType
\* exist, whether the sync type has a loaded definition, and whether the
\* engine accepts the link.
Chars_ResetSystem == <<"R","e","s","e","t","S","y","s","t","e","m">>
Chars_GetStatus == <<"G","e","t","S","t","a","t","u","s">>
Chars_SetImageMatchingType ==
  <<"S","e","t","I","m","a","g","e","M","a","t","c","h","i","n","g","T","y","p","e">>
Chars_AddPart == <<"A","d","d","P","a","r","t">>
Chars_TracePart == <<"T","r","a","c","e","P","a","r","t">>

Service(name, ev, sy) ==
  [name |-> name, event_type |-> ev, sync_type |-> sy, sync_def |-> sy, link_ok |-> TRUE]

\* Every service answers delayed (the interface as shipped: "all commands are
\* implemented async").
NodesetAllAsync ==
  [async_def |-> TRUE,
   services |-> << Service(Chars_ResetSystem, TRUE, FALSE),
                   Service(Chars_GetStatus, TRUE, FALSE),
                   Service(Chars_SetImageMatchingType, TRUE, FALSE),
                   Service(Chars_AddPart, TRUE, FALSE),
                   Service(Chars_TracePart, TRUE, FALSE) >>]

\* The two short services answer immediately.
NodesetMixed ==
  [async_def |-> TRUE,
   services |-> << Service(Chars_ResetSystem, TRUE, FALSE),
                   Service(Chars_GetStatus, FALSE, TRUE),
                   Service(Chars_SetImageMatchingType, FALSE, TRUE),
                   Service(Chars_AddPart, TRUE, FALSE),
                   Service(Chars_TracePart, TRUE, FALSE) >>]

\* The interfaces load_nodesets() may have loaded, by name.
Nodesets == {"all_async", "mixed"}

Interface(ns) == IF ns = "all_async" THEN NodesetAllAsync ELSE NodesetMixed

\* The State section of the config file: the initial values of the State
\* variables, as the strings ConfigParser.get() returns.
ConfigState ==
  [RunState |-> "0", ResultState |-> "0", ErrorType |-> "0", CurrentCommand |-> ""]

\* ------------------------------------------------------------ config file
\* An entry of fp_opcua.ini: present or not; the text of a Capabilities or
\* Properties entry is kept as its characters, that of a State entry as it is.
NoConfigEntry == [present |-> FALSE, text |-> <<>>]

ConfigEntry(text) == [present |-> TRUE, text |-> text]

\* The variables of the Capabilities and Properties containers, in the order
\* init_variables visits them, and those of the State container.
ConfigVars == <<"Capability", "Property">>

StateVarOrder == <<"RunState", "ResultState", "ErrorType", "CurrentCommand">>

\* A config file with an entry for every variable.
ShippedConfig ==
  [entries |-> [Capability |-> ConfigEntry(<<"5">>), Property |-> ConfigEntry(<<"a","b","c">>)],
   state |-> [n \in StateVarNames |-> ConfigEntry(ConfigState[n])]]

Digits == {"0","1","2","3","4","5","6","7","8","9"}

\* str.isdecimal()
isdecimal(cs) == cs # <<>> /\ \A n \in 1 .. Len(cs) : cs[n] \in Digits

\* str.lower()
lower(cs) == [n \in 1 .. Len(cs) |-> IF cs[n] \in UpperCase THEN Lower(cs[n]) ELSE cs[n]]

\* str.strip('"')
RECURSIVE strip_quotes(_)
strip_quotes(cs) ==
  IF cs # <<>> /\ Head(cs) = "\"" THEN strip_quotes(Tail(cs))
  ELSE IF cs # <<>> /\ cs[Len(cs)] = "\"" THEN strip_quotes(SubSeq(cs, 1, Len(cs) - 1))
  ELSE cs

\* str.split(',') on a sequence of characters: the list of the parts, as
\* sequences of characters.
RECURSIVE SplitComma(_, _, _)
SplitComma(cs, cur, acc) ==
  IF cs = <<>> THEN Append(acc, cur)
  ELSE IF Head(cs) = "," THEN SplitComma(Tail(cs), <<>>, Append(acc, cur))
  ELSE SplitComma(Tail(cs), Append(cur, Head(cs)), acc)

Unsigned(cs) == IF cs # <<>> /\ Head(cs) \in {"+", "-"} THEN Tail(cs) ELSE cs

\* int(text) returns: a sign and decimal digits.
int_accepts(cs) == isdecimal(Unsigned(cs))

\* float(text) returns: a sign and decimal digits around at most one point
\* (exponents, inf and nan are not among the texts looked at).
float_accepts(cs) ==
  LET body == Unsigned(cs)
      points == {n \in 1 .. Len(body) : body[n] = "."}
  IN /\ Cardinality(points) <= 1
     /\ \E n \in 1 .. Len(body) : body[n] \in Digits
     /\ \A n \in 1 .. Len(body) : body[n] \in Digits \cup {"."}

\* The type init_variable reads off the first element of the value.
value_type(first) ==
  IF isdecimal(first) THEN "int"
  ELSE IF Str(lower(first)) \in {"false", "true"} THEN "bool"
  ELSE IF float_accepts(first) THEN "float"
  ELSE "str"

\* type_(v.strip('"')) returns (it raises ValueError otherwise).
converts(type_, cs) ==
  CASE type_ = "int" -> int_accepts(strip_quotes(cs))
    [] type_ = "float" -> float_accepts(strip_quotes(cs))
    [] OTHER -> TRUE

\* init_variable(container_name, var_node, config) for the entry of the
\* variable: no entry (a warning, nothing written), the typed value written,
\* or the ValueError of an element that does not convert.
init_variable(entry) ==
  IF ~entry.present THEN [outcome |-> "no_entry", value |-> <<>>]
  ELSE LET val_array == SplitComma(entry.text, <<>>, <<>>)
           type_ == value_type(val_array[1])
       IN IF \A n \in 1 .. Len(val_array) : converts(type_, val_array[n])
          THEN [outcome |-> "written", value |-> <<type_, Str(entry.text)>>]
          ELSE [outcome |-> "ValueError", value |-> <<>>]

\* The first loop of init_variables from variable n on.
RECURSIVE InitContainers(_, _, _)
InitContainers(cfg, n, acc) ==
  IF n > Len(ConfigVars) THEN acc
  ELSE LET v == ConfigVars[n]
           r == init_variable(cfg.entries[v])
       IN CASE r.outcome = "no_entry" ->
                 InitContainers(cfg, n + 1, [acc EXCEPT !.log = Append(@, <<"WARN", v>>)])
            [] r.outcome = "written" ->
                 InitContainers(cfg, n + 1,
                                [acc EXCEPT !.variables = DictUpdate(@, v :> r.value)])
            [] OTHER -> [acc EXCEPT !.raised = TRUE]

\* The second loop of init_variables from State variable n on:
\* config.get(section, name) has no fallback and raises for a missing entry.
RECURSIVE InitState(_, _, _)
InitState(cfg, n, acc) ==
  IF acc.raised \/ n > Len(StateVarOrder) THEN acc
  ELSE LET v == StateVarOrder[n] IN
       IF ~cfg.state[v].present THEN [acc EXCEPT !.raised = TRUE]
       ELSE InitState(cfg, n + 1,
                      [acc EXCEPT !.state_vars = update_state(@, v :> cfg.state[v].text)])

\* init_variables(): what it wrote and logged, and whether it raised.
init_variables(cfg, state_vars_) ==
  InitState(cfg, 1,
            InitContainers(cfg, 1, [raised |-> FALSE, variables |-> EmptyDict,
                                    state_vars |-> state_vars_, log |-> <<>>]))

\* ------------------------------------------------------------------- state
VARIABLES
  backend,        \* which backend class bind_sensor() was given
  fresh,          \* run state of a fresh FpStatus
  nodeset,        \* name of the loaded interface
  phase,          \* "constructed" | "running" | "failed" (initialize_nodeset raised)
  linked,         \* indices of the services link_method() accepted
  handlers,       \* service index -> what its service_responding_func closes over
  event_gens,     \* service index -> attributes set on its event generator
  tasks_running,  \* the Task Registry
  state_vars,     \* the State variables of the OPC UA interface
  status,         \* fp_system.status
  image_matching, \* fp_system.image_matching (mockup)
  fp_databases,   \* fp_system.fp_databases (mockup), in insertion order
  task_lock,      \* fp_system.task_lock
  calls,          \* one record per service call
  config,         \* what fp_opcua.ini holds for the exposed variables
  variables,      \* the Capabilities and Properties variables init_variable wrote
  unsettable      \* attribute names setattr() on an event generator raises for

vars == <<backend, fresh, nodeset, phase, linked, handlers, event_gens,
          tasks_running, state_vars, status, image_matching, fp_databases,
          task_lock, calls, config, variables, unsettable>>

Calls == 1 .. MaxCalls

\* The handle of the periodic publisher's task.
PUBLISHER == 0

\* The locals a backend body keeps across its waits: the duplicates add_part
\* found (only their presence is used) and the entry trace_part found.
NoLocal == [id_duplicates |-> {}, fp_duplicates |-> {}, found |-> <<>>]

NoCall ==
  [svc |-> 0, args |-> <<>>, est |-> "idle", hpc |-> "idle", reply |-> EmptyDict,
   tpc |-> "none", res_kind |-> "none", res |-> EmptyDict, local |-> NoLocal,
   emitted |-> 0, event |-> EmptyDict, republished |-> FALSE, discards |-> 0,
   notices |-> {}]

Init ==
  /\ backend \in Backends
  /\ fresh \in FreshRunStates
  /\ nodeset \in Nodesets
  /\ phase = "constructed"
  /\ linked = {}
  /\ handlers = EmptyDict
  /\ event_gens = EmptyDict
  /\ tasks_running = {}
  /\ state_vars = EmptyDict
  /\ status = FpStatusFresh(fresh)
  /\ image_matching = "default"
  /\ fp_databases = <<>>
  /\ task_lock = [locked |-> FALSE, waiters |-> <<>>]
  /\ calls = [i \in Calls |-> NoCall]
  /\ config = ShippedConfig
  /\ variables = EmptyDict
  /\ unsettable = {}

\* ------------------------------------------------------------ link_services
\* The loop of link_services from service k on.  acc holds what has been set
\* so far: event_gens (generator created), handlers (wrapped function made,
\* with its returns_async) and linked (link_method succeeded).
\* Mutant of make_it_service_responding: the response mode is turned round.
make_it_service_responding_Inverted(b, method, async) ==
  [func |-> method, has_prior_info |-> HasPriorInfo(b, method), returns_async |-> ~async]

\* make_it_service_responding(service_name, func, func_prior_info,
\* immediate_result_datatype, returns_async): the wrapped function keeps the
\* backend method, whether it has an estimator, and its response mode.
make_it_service_responding(b, method, async) ==
  [func |-> method, has_prior_info |-> HasPriorInfo(b, method), returns_async |-> async]

\* What link_services writes to the log about service k.
LogEntry(level, k, what) == [level |-> level, service |-> k, what |-> what]

RECURSIVE LinkFrom(_, _, _, _)
LinkFrom(b, ifc, k, acc) ==
  IF k > Len(ifc.services) THEN acc
  ELSE
    LET s == ifc.services[k]
        method == camel_to_snake(s.name)
        Logged(a, level, what) == [a EXCEPT !.log = Append(@, LogEntry(level, k, what))]
    IN
    IF Str(s.name) \in {"register", "unregister"} THEN LinkFrom(b, ifc, k + 1, acc)
    ELSE IF ~HasMethod(b, method)
    THEN LinkFrom(b, ifc, k + 1, Logged(acc, "ERROR", "no_method"))
    ELSE IF ~s.event_type /\ ~s.sync_type
    THEN LinkFrom(b, ifc, k + 1, Logged(acc, "ERROR", "no_shape"))
    ELSE
      LET async == s.event_type
          acc1 == IF async
                  THEN [acc EXCEPT !.event_gens = DictUpdate(@, k :> EmptyDict)]
                  ELSE acc
          has_def == IF async THEN ifc.async_def ELSE s.sync_def
          acc2 == [acc1 EXCEPT !.handlers =
                     DictUpdate(@, k :> make_it_service_responding(b, method, async))]
      IN
      IF ~has_def
      THEN LinkFrom(b, ifc, k + 1,
                    Logged(acc1, IF async THEN "ERROR" ELSE "WARN", "no_definition"))
      ELSE IF ~s.link_ok THEN Logged(acc2, "ERROR", "not_linked")
      ELSE LinkFrom(b, ifc, k + 1,
                    Logged([acc2 EXCEPT !.linked = @ \cup {k}], "INFO", "linked"))

link_services(b, ifc) ==
  LinkFrom(b, ifc, 1,
           [event_gens |-> EmptyDict, handlers |-> EmptyDict, linked |-> {}, log |-> <<>>])

\* The backend method a linked service index is bound to.
MethodOf(k) == handlers[k].func

\* Mutant of register: the handle is not kept.
register_Dropped(set, h) == set

\* tasks_running.add(task)
register(set, h) == set \cup {h}

\* initialize_nodeset(): init_variables, link_services, init_threads, for the
\* loaded interface ifc.  The server does not listen yet, so nothing runs in
\* between.  An exception of init_variables ends initialize_nodeset: nothing
\* is linked and the publisher is not started.
StartupWith(ifc) ==
  /\ phase = "constructed"
  /\ LET iv == init_variables(config, state_vars) IN
       /\ state_vars' = iv.state_vars
       /\ variables' = iv.variables
       /\ IF iv.raised
          THEN /\ phase' = "failed"
               /\ UNCHANGED <<linked, handlers, event_gens, tasks_running>>
          ELSE /\ LET l == link_services(backend, ifc) IN
                    /\ linked' = l.linked
                    /\ handlers' = l.handlers
                    /\ event_gens' = l.event_gens
               /\ tasks_running' = register(tasks_running, PUBLISHER)
               /\ phase' = "running"
  /\ UNCHANGED <<unsettable, config, backend, fresh, nodeset, status, image_matching,
                 fp_databases,
                 task_lock, calls>>

initialize_nodeset == StartupWith(Interface(nodeset))

\* Mutant of periodic_state_update: a round of the loop that only sleeps.
periodic_state_update_Idle ==
  /\ phase = "running"
  /\ PUBLISHER \in tasks_running
  /\ UNCHANGED vars

\* periodic_state_update(): one round of the publisher's loop.
periodic_state_update ==
  /\ phase = "running"
  /\ PUBLISHER \in tasks_running
  /\ state_vars' = update_state(state_vars, internal_get_status(status).snapshot)
  /\ status' = internal_get_status(status).status
  /\ UNCHANGED <<unsettable, config, variables, backend, fresh, nodeset, phase, linked, handlers, event_gens,
                 tasks_running, image_matching, fp_databases, task_lock,
                 calls>>

\* --------------------------------------------------------- backend helpers
\* str.rjust(width, '-')
RECURSIVE Dashes(_)
Dashes(n) == IF n <= 0 THEN "" ELSE "-" \o Dashes(n - 1)

rjust(str, width) == IF Len(str) >= width THEN str ELSE Dashes(width - Len(str)) \o str

\* An argument value that is not a str (the client sent a number): it has no
\* rjust, so "part_id.rjust(...)" raises AttributeError.
NotAStr == "<int>"

has_rjust(v) == v # NotAStr

\* The pseudo fingerprint add_part computes.
new_fingerprint(part_id, batch_id, part_type) ==
  rjust(part_id, FINGERPRINT_SIZE \div 3)
    \o rjust(batch_id, FINGERPRINT_SIZE \div 3)
    \o rjust(part_type, (FINGERPRINT_SIZE \div 3) + (FINGERPRINT_SIZE % 3))

FpDatabaseEntry(fingerprint, part_id, batch_id, part_type) ==
  [fingerprint |-> fingerprint, part_id |-> part_id, batch_id |-> batch_id,
   part_type |-> part_type]

\* str.split(';') on a sequence of characters: the list of the parts, as strings.
RECURSIVE SplitFrom(_, _, _)
SplitFrom(cs, cur, acc) ==
  IF cs = <<>> THEN Append(acc, Str(cur))
  ELSE IF Head(cs) = ";" THEN SplitFrom(Tail(cs), <<>>, Append(acc, Str(cur)))
  ELSE SplitFrom(Tail(cs), Append(cur, Head(cs)), acc)

split(cs) == SplitFrom(cs, <<>>, <<>>)

\* "aaa;bb" -> ["aaa", "bb"], and "" -> [].
to_list(cs) == IF Len(cs) # 0 THEN split(cs) ELSE <<>>

InSeq(x, seq) == \E n \in 1 .. Len(seq) : seq[n] = x

\* fp_databases is a dict in insertion order: a sequence of (name, entries).
DbNames(dbs) == [n \in 1 .. Len(dbs) |-> dbs[n].name]

DbHas(dbs, name) == \E n \in 1 .. Len(dbs) : dbs[n].name = name

DbIndex(dbs, name) == CHOOSE n \in 1 .. Len(dbs) : dbs[n].name = name

DbEntries(dbs, name) == dbs[DbIndex(dbs, name)].entries

\* fp_databases[name] = set() when the key is missing.
DbCreate(dbs, name) ==
  IF DbHas(dbs, name) THEN dbs ELSE Append(dbs, [name |-> name, entries |-> {}])

DbAdd(dbs, name, e) == [dbs EXCEPT ![DbIndex(dbs, name)].entries = @ \cup {e}]

DbRemove(dbs, name, e) == [dbs EXCEPT ![DbIndex(dbs, name)].entries = @ \ {e}]

\* Every entry of every database.
AllEntries(dbs) == UNION {dbs[n].entries : n \in 1 .. Len(dbs)}

\* The names trace_part searches, in order: ref_database_names, then
\* database_name, then (trace_all_databases) every other database.
RECURSIVE AppendMissing(_, _)
AppendMissing(list, names) ==
  IF names = <<>> THEN list
  ELSE AppendMissing(IF InSeq(Head(names), list) THEN list ELSE Append(list, Head(names)),
                     Tail(names))

\* Mutant of search_order: the target database is searched first.
search_order_TargetFirst(dbs, database_name, ref_names, trace_all) ==
  LET l1 == AppendMissing(<<database_name>>, ref_names)
  IN IF trace_all THEN AppendMissing(l1, DbNames(dbs)) ELSE l1

search_order(dbs, database_name, ref_names, trace_all) ==
  LET l1 == AppendMissing(ref_names, <<database_name>>)
  IN IF trace_all THEN AppendMissing(l1, DbNames(dbs)) ELSE l1

\* Mutant of candidates: the filters are left out.
candidates_Unfiltered(entries, batch_list, batchwise, type_list, typewise) == entries

\* The entries of one database that pass the batch and type filters.
candidates(entries, batch_list, batchwise, type_list, typewise) ==
  {e \in entries : ~((batchwise /\ ~InSeq(e.batch_id, batch_list))
                     \/ (typewise /\ ~InSeq(e.part_type, type_list)))}

\* The first database of the search order that exists and has candidates:
\* <<name>> or <<>>.
RECURSIVE first_hit(_, _, _, _, _, _)
first_hit(dbs, order, batch_list, batchwise, type_list, typewise) ==
  IF order = <<>> THEN <<>>
  ELSE IF DbHas(dbs, Head(order))
          /\ candidates(DbEntries(dbs, Head(order)), batch_list, batchwise,
                        type_list, typewise) # {}
       THEN <<Head(order)>>
       ELSE first_hit(dbs, Tail(order), batch_list, batchwise, type_list, typewise)

\* str(list.append(x)): list.append returns None.
StrOfAppend == "None"

\* ------------------------------------------------------- the backend bodies
\* A body runs in segments: from its start (stage 0) to its first
\* asyncio.sleep, from there (stage 1) to the second, and from there (stage 2)
\* to its return.  A segment maps the backend's state B (status,
\* image_matching, fp_databases, the body's locals) to the state it leaves,
\* with next = "s1" | "s2" (the sleep it stops at) or "return" and the value
\* returned.
Sleep(B, at) == [B EXCEPT !.next = at]

\* An exception leaves the body: the status stays as the body last set it.
Raise(B) == [B EXCEPT !.next = "raise", !.res_kind = "raised"]

Return(B, kind, res) == [B EXCEPT !.next = "return", !.res_kind = kind, !.res = res]

SetStatus(B, rs, res, err, cmd) == [B EXCEPT !.status = FpStatusUpdate(rs, res, err, cmd)]

\* Mutant of IsReady: the status is not looked at.
IsReady_Always(st) == TRUE

IsReady(st) == st.run_state = "SYSTEM_READY" /\ st.error_type = "NO_ERROR"

\* Mutant of reset_system: the method returns after the sleep without the
\* closing status.update.
reset_system_Unfinished(stage, B) ==
  IF stage = 0
  THEN Sleep([B EXCEPT !.status = FpStatusFresh(B.fresh)], "s1")
  ELSE Return(B, "mapping", EmptyDict)

\* reset_system, both backends.
reset_system(stage, B) ==
  IF stage = 0
  THEN Sleep([B EXCEPT !.status = FpStatusFresh(B.fresh)], "s1")
  ELSE Return(SetStatus(B, "SYSTEM_READY", "RESULT_UNDEFINED", "NO_ERROR", ""),
              "mapping", EmptyDict)

\* get_status, both backends: "return self._get_status()" hands back the
\* coroutine object of the async _get_status, not the status dict.
get_status(stage, B) ==
  IF stage = 0 THEN Sleep(B, "s1") ELSE Return(B, "coroutine", EmptyDict)

\* set_image_matching_type; only the mockup stores the name.
set_image_matching_type(b, stage, B, args) ==
  IF stage = 0
  THEN LET B1 == SetStatus(B, "COMMAND_RUNNING", "RESULT_UNDEFINED", "NO_ERROR",
                           "set_image_matching_type")
       IN Sleep(IF b = "mockup" THEN [B1 EXCEPT !.image_matching = args[1]] ELSE B1, "s1")
  ELSE Return(SetStatus(B, "SYSTEM_READY", "RESULT_READY", "NO_ERROR", ""),
              "mapping", EmptyDict)

\* FpEchoSystem.add_part
echo_add_part(stage, B) ==
  IF stage = 0
  THEN Sleep(SetStatus(B, "ACQUIRING_IMAGE", "RESULT_UNDEFINED", "NO_ERROR", "add_part"), "s1")
  ELSE IF stage = 1
  THEN Sleep(SetStatus(B, "COMMAND_RUNNING", "RESULT_UNDEFINED", "NO_ERROR", "add_part"), "s2")
  ELSE Return(SetStatus(B, "SYSTEM_READY", "RESULT_READY", "NO_ERROR", ""), "mapping",
              [ServiceExecutionResult |-> 0, PartIDsOfDuplicates |-> ""])

TraceResult(part_id, batch_id, part_type, c1, c2, a1, a2) ==
  [ServiceExecutionResult |-> 0, PartID |-> part_id, BatchID |-> batch_id,
   PartType |-> part_type, CurrentConfidenceValue1 |-> c1,
   CurrentConfidenceValue2 |-> c2, AverageConfidenceValue1 |-> a1,
   AverageConfidenceValue2 |-> a2]

\* FpEchoSystem.trace_part
echo_trace_part(stage, B) ==
  IF stage = 0
  THEN Sleep(SetStatus(B, "ACQUIRING_IMAGE", "RESULT_UNDEFINED", "NO_ERROR", "trace_part"), "s1")
  ELSE IF stage = 1
  THEN Sleep(SetStatus(B, "COMMAND_RUNNING", "RESULT_UNDEFINED", "NO_ERROR", "trace_part"), "s2")
  ELSE Return(SetStatus(B, "SYSTEM_READY", "RESULT_READY", "NO_ERROR", ""), "mapping",
              TraceResult("", "", "", 99, 100, 97, 98))

NotExecuted == [PartIDsOfDuplicates |-> ""]

\* FpMockupSystem.add_part(database_name, check_id_duplicates,
\* check_fp_duplicates, part_id, batch_id, part_type)
mockup_add_part(stage, B, args) ==
  LET database_name == args[1]
      check_id == args[2]
      check_fp == args[3]
      part_id == args[4]
      fp == new_fingerprint(args[4], args[5], args[6])
  IN
  IF stage = 0
  THEN IF ~IsReady(B.status) THEN Return(B, "mapping", NotExecuted)
       ELSE Sleep(SetStatus(B, "ACQUIRING_IMAGE", "RESULT_UNDEFINED", "NO_ERROR",
                            "add_part"), "s1")
  ELSE IF stage = 1
  THEN LET all == AllEntries(B.fp_databases)
           B1 == SetStatus(B, "COMMAND_RUNNING", "RESULT_UNDEFINED", "NO_ERROR", "add_part")
       IN IF ~(has_rjust(part_id) /\ has_rjust(args[5]) /\ has_rjust(args[6]))
          THEN Raise(B1)
          ELSE Sleep([B1 EXCEPT
                        !.local.id_duplicates =
                          {e \in all : check_id /\ e.part_id = part_id},
                        !.local.fp_duplicates =
                          {e \in all : check_fp /\ e.fingerprint = fp}],
                     "s2")
  ELSE IF B.local.id_duplicates # {}
  THEN Return(SetStatus(B, "SYSTEM_ERROR", "RESULT_READY", "ID_DUPLICATE_FOUND", ""),
              "mapping", [PartIDsOfDuplicates |-> StrOfAppend])
  ELSE IF B.local.fp_duplicates # {}
  THEN Return(SetStatus(B, "SYSTEM_ERROR", "RESULT_READY", "FP_DUPLICATE_FOUND", ""),
              "mapping", [PartIDsOfDuplicates |-> StrOfAppend])
  ELSE LET dbs == DbAdd(DbCreate(B.fp_databases, database_name), database_name,
                        FpDatabaseEntry(fp, part_id, args[5], args[6]))
           B1 == [B EXCEPT !.fp_databases = dbs]
       IN Return(SetStatus(B1, "SYSTEM_READY", "RESULT_READY", "NO_ERROR", ""),
                 "mapping", [PartIDsOfDuplicates |-> ""])

\* The database trace_part finds its entry in (<<name>>, or <<>> for none).
trace_hit(dbs, args) ==
  first_hit(dbs, search_order(dbs, args[1], to_list(args[2]), args[3]),
            to_list(args[4]), args[5], to_list(args[6]), args[7])

\* The entries randint may pick in that database.
trace_candidates(dbs, args) ==
  LET hit == trace_hit(dbs, args)
  IN IF hit = <<>> THEN {}
     ELSE candidates(DbEntries(dbs, hit[1]), to_list(args[4]), args[5],
                     to_list(args[6]), args[7])

\* FpMockupSystem.trace_part(database_name, ref_database_names,
\* trace_all_databases, batch_ids, trace_batchwise, part_types,
\* trace_typewise); x is the entry randint picks among the candidates.
mockup_trace_part(stage, B, args, x) ==
  LET database_name == args[1] IN
  IF stage = 0
  THEN IF ~IsReady(B.status) THEN Return(B, "mapping", NotExecuted)
       ELSE Sleep(SetStatus(B, "ACQUIRING_IMAGE", "RESULT_UNDEFINED", "NO_ERROR",
                            "trace_part"), "s1")
  ELSE IF stage = 1
  THEN LET B1 == SetStatus(B, "COMMAND_RUNNING", "RESULT_UNDEFINED", "NO_ERROR",
                           "trace_part")
           hit == trace_hit(B.fp_databases, args)
       IN IF hit = <<>> THEN Sleep([B1 EXCEPT !.local.found = <<>>], "s2")
          ELSE LET removed == DbRemove(B.fp_databases, hit[1], x)
                   moved == DbAdd(DbCreate(removed, database_name), database_name, x)
               IN Sleep([B1 EXCEPT !.fp_databases = moved, !.local.found = <<x>>], "s2")
  ELSE LET B1 == SetStatus(B, "SYSTEM_READY", "RESULT_READY", "NO_ERROR", "")
       IN IF B.local.found = <<>>
          THEN Return(B1, "mapping", TraceResult("", "", "", 0, 0, 0, 0))
          ELSE LET e == B.local.found[1]
               IN Return(B1, "mapping",
                         TraceResult(e.part_id, e.batch_id, e.part_type, 99, 100, 97, 98))

\* The segment of method name of backend b that starts at stage.
BodySegment(b, name, stage, B, args, x) ==
  CASE name = "reset_system" -> reset_system(stage, B)
    [] name = "get_status" -> get_status(stage, B)
    [] name = "set_image_matching_type" -> set_image_matching_type(b, stage, B, args)
    [] name = "add_part" ->
         IF b = "mockup" THEN mockup_add_part(stage, B, args) ELSE echo_add_part(stage, B)
    [] name = "trace_part" ->
         IF b = "mockup" THEN mockup_trace_part(stage, B, args, x)
         ELSE echo_trace_part(stage, B)

\* Mutant of UsesLock: the mockup's get_status takes the lock too.
UsesLock_Every(b, name) == TRUE

\* "async with self.task_lock" wraps the body: every method but the mockup's
\* get_status.
UsesLock(b, name) == ~(b = "mockup" /\ name = "get_status")

\* ------------------------------------------------------------ service calls
\* The input arguments a client passes to a service: the arguments of the
\* nodeset's method declaration, or a list that does not fit it.
NoChars == <<>>

GoodArgs(name) ==
  CASE name = "reset_system" -> {<<>>}
    [] name = "get_status" -> {<<>>}
    [] name = "set_image_matching_type" -> {<<"typeA">>}
    [] name = "add_part" -> {<<"DB1", TRUE, FALSE, "P1", "B1", "T1">>}
    [] name = "trace_part" -> {<<"DB2", <<"D","B","1">>, FALSE, NoChars, FALSE, NoChars, FALSE>>}

\* An argument list of the wrong length, for the methods that take arguments.
BadArgs(name) == IF MockupArity[name] = 0 THEN {} ELSE {<<>>}

\* The echo's methods take *args and only print them: one list stands for all.
InputArgs(b, name) ==
  IF b # "mockup" THEN GoodArgs(name) ELSE GoodArgs(name) \cup BadArgs(name)

\* Calls are numbered in the order they arrive.
NextCall(i) == calls[i].svc = 0 /\ \A j \in Calls : j < i => calls[j].svc # 0

\* The prior info both handlers start with.
AsyncPriorInfo(h) ==
  IF h.has_prior_info THEN PriorInfoOf(h.func) ELSE DefaultPriorInfo

SyncPriorInfo(h) ==
  IF h.has_prior_info THEN PriorInfoOf(h.func) ELSE EmptyDict

\* Mutant of AsyncReply: the reply also carries an outcome field, as a result
\* envelope would.
AsyncReply_WithOutcome(prior_info) ==
  DictUpdate(prior_info, [ServiceExecutionResult |-> 0])

\* immediate_result_datatype(**prior_info) of the ASYNC handler.
AsyncReply(prior_info) == prior_info

\* Mutant of prior_info_call: the estimator stores something in the backend.
prior_info_call_Mutating(b, name, args, B) ==
  [kind |-> "mapping", fields |-> PriorInfoOf(name), status |-> B.status,
   image_matching |-> "estimated", fp_databases |-> B.fp_databases]

\* func_prior_info(*input_args): <method>_prior_info of either backend takes
\* any arguments, builds its dict from duration_estimations and returns it;
\* B is the backend's state, which it hands back as it found it.
prior_info_call(b, name, args, B) ==
  [kind |-> "mapping", fields |-> PriorInfoOf(name), status |-> B.status,
   image_matching |-> B.image_matching, fp_databases |-> B.fp_databases]

\* "Get prior info" of both handlers: the estimator's outcome, or the
\* handler's own default when there is no estimator.
GetPriorInfo(h, default, args) ==
  LET B == [status |-> status, image_matching |-> image_matching,
            fp_databases |-> fp_databases]
  IN IF h.has_prior_info THEN prior_info_call(backend, h.func, args, B)
     ELSE [kind |-> "mapping", fields |-> default, status |-> B.status,
           image_matching |-> B.image_matching, fp_databases |-> B.fp_databases]

\* The ASYNC service_responding_func: prior info, background task, registry,
\* State variables, reply.  An exception of the estimator ends the handler
\* before the task is created.
ServiceAsync(i, k, args) ==
  /\ phase = "running"
  /\ NextCall(i)
  /\ k \in linked /\ handlers[k].returns_async
  /\ LET est == GetPriorInfo(handlers[k], DefaultPriorInfo, args) IN
       /\ image_matching' = est.image_matching
       /\ fp_databases' = est.fp_databases
       /\ IF est.kind = "raised"
          THEN /\ calls' = [calls EXCEPT ![i] =
                              [@ EXCEPT !.svc = k, !.args = args, !.est = "raised",
                                        !.hpc = "raised"]]
               /\ status' = est.status
               /\ UNCHANGED <<tasks_running, state_vars>>
          ELSE /\ calls' = [calls EXCEPT ![i] =
                              [@ EXCEPT !.svc = k, !.args = args,
                                        !.est = IF handlers[k].has_prior_info
                                                THEN "called" ELSE "none",
                                        !.tpc = "created", !.hpc = "returned",
                                        !.reply = AsyncReply(est.fields)]]
               /\ tasks_running' = register(tasks_running, i)
               /\ state_vars' =
                    update_state(state_vars, internal_get_status(est.status).snapshot)
               /\ status' = internal_get_status(est.status).status
  /\ UNCHANGED <<unsettable, config, variables, backend, fresh, nodeset, phase, linked, handlers, event_gens,
                 task_lock>>

\* Mutant of CallUnawaited: a failing call is swallowed and stands for an
\* empty result.
CallUnawaited_Swallowing(b, name, args) ==
  IF ArgsFit(b, name, args) THEN [kind |-> "coroutine", fields |-> EmptyDict]
  ELSE [kind |-> "mapping", fields |-> EmptyDict]

\* func(*input_args) without await: every backend method is a coroutine
\* function, so the call binds the arguments and hands back a coroutine
\* object whose body has not started.
CallUnawaited(b, name, args) ==
  IF ArgsFit(b, name, args) THEN [kind |-> "coroutine", fields |-> EmptyDict]
  ELSE [kind |-> "TypeError", fields |-> EmptyDict]

\* The rest of the SYNC handler once func(*input_args) has returned
\* sync_results: prior_info.update(**sync_results) needs a mapping; the reply
\* is built from sync_results.
SyncOutcome(prior_info, sync_results) ==
  IF sync_results.kind = "mapping"
  THEN [hpc |-> "returned", merged |-> DictUpdate(prior_info, sync_results.fields),
        reply |-> sync_results.fields, published |-> TRUE]
  ELSE [hpc |-> "raised", merged |-> prior_info, reply |-> EmptyDict, published |-> FALSE]

\* The SYNC service_responding_func.
ServiceSync(i, k, args) ==
  /\ phase = "running"
  /\ NextCall(i)
  /\ k \in linked /\ ~handlers[k].returns_async
  /\ LET est == GetPriorInfo(handlers[k], EmptyDict, args) IN
       /\ image_matching' = est.image_matching
       /\ fp_databases' = est.fp_databases
       /\ IF est.kind = "raised"
          THEN /\ calls' = [calls EXCEPT ![i] =
                              [@ EXCEPT !.svc = k, !.args = args, !.est = "raised",
                                        !.hpc = "raised"]]
               /\ status' = est.status
               /\ UNCHANGED state_vars
          ELSE LET sync_results == CallUnawaited(backend, MethodOf(k), args)
                   out == SyncOutcome(est.fields, sync_results)
               IN /\ calls' = [calls EXCEPT ![i] =
                                 [@ EXCEPT !.svc = k, !.args = args,
                                           !.est = IF handlers[k].has_prior_info
                                                   THEN "called" ELSE "none",
                                           !.hpc = out.hpc,
                                           !.reply = out.reply,
                                           !.res_kind = IF sync_results.kind = "TypeError"
                                                        THEN "raised" ELSE "none"]]
                  /\ state_vars' =
                       IF out.published
                       THEN update_state(state_vars, internal_get_status(est.status).snapshot)
                       ELSE state_vars
                  /\ status' = IF out.published THEN internal_get_status(est.status).status
                               ELSE est.status
  /\ UNCHANGED <<unsettable, config, variables, backend, fresh, nodeset, phase, linked, handlers, event_gens,
                 tasks_running, task_lock>>

\* ------------------------------------------------------------ asyncio.Lock
\* Mutant of CanTake: the lock is taken whether or not it is held.
CanTake_Always(lock) == TRUE

\* Lock.acquire() takes a free lock at once when nobody waits for it.
CanTake(lock) == ~lock.locked /\ lock.waiters = <<>>

\* Mutant of Release: leaving the body keeps the lock.
Release_Kept(lock) == lock

\* Lock.release(): the lock is free and the first waiter is woken.
Release(lock) == [lock EXCEPT !.locked = FALSE]

\* --------------------------------------------------------- background tasks
\* event_triggering_func once "res = await func(*input_args)" has a value:
\* the outcome field, then every item of res; a res without items() raises
\* after the outcome field was set.
\* Mutant of Settable: no setattr raises, every item is set.
Settable_All(res, refused) == res

\* The items of res for which setattr(event_gen, name, val) does not raise;
\* for the others the loop logs its notice and continues.
Settable(res, refused) == [k \in (DOMAIN res) \ refused |-> res[k]]

FillEvent(gen, res_kind, res) ==
  IF res_kind = "mapping"
  THEN DictUpdate(DictUpdate(gen, [ServiceExecutionResult |-> 0]), res)
  ELSE DictUpdate(gen, [ServiceExecutionResult |-> 0])

NoEntry == FpDatabaseEntry("", "", "", "")

\* What randint may pick in the segment call i is about to run.
Picks(i, stage) ==
  IF backend = "mockup" /\ MethodOf(calls[i].svc) = "trace_part" /\ stage = 1
     /\ trace_candidates(fp_databases, calls[i].args) # {}
  THEN trace_candidates(fp_databases, calls[i].args)
  ELSE {NoEntry}

\* Call i's task runs the segment of its backend body that starts at stage,
\* holding lock; on return the lock is released and the event is filled, an
\* exception releases the lock and leaves the generator alone.
RunSegment(i, stage, x, lock) ==
  LET c == calls[i]
      name == MethodOf(c.svc)
      B0 == [status |-> status, image_matching |-> image_matching,
             fp_databases |-> fp_databases, fresh |-> fresh, local |-> c.local,
             next |-> "", res_kind |-> "none", res |-> EmptyDict]
      B == BodySegment(backend, name, stage, B0, c.args, x)
      returned == B.next = "return"
      ended == B.next \in {"return", "raise"}
  IN
  /\ status' = B.status
  /\ image_matching' = B.image_matching
  /\ fp_databases' = B.fp_databases
  /\ task_lock' = IF UsesLock(backend, name) /\ ended THEN Release(lock) ELSE lock
  /\ event_gens' = IF returned
                   THEN [event_gens EXCEPT ![c.svc] =
                           FillEvent(@, B.res_kind, Settable(B.res, unsettable))]
                   ELSE event_gens
  /\ calls' = [calls EXCEPT ![i] =
                 [@ EXCEPT !.local = B.local, !.res_kind = B.res_kind, !.res = B.res,
                           !.notices = IF returned /\ B.res_kind = "mapping"
                                       THEN (DOMAIN B.res) \cap unsettable ELSE @,
                           !.tpc = IF ~ended THEN B.next
                                   ELSE IF B.res_kind = "mapping" THEN "emit"
                                   ELSE "fin"]]

\* The task's first step: func(*input_args) is called and awaited up to its
\* first wait.
TaskStart(i) ==
  /\ calls[i].tpc = "created"
  /\ LET c == calls[i]
         name == MethodOf(c.svc)
     IN
     IF ~ArgsFit(backend, name, c.args)
     THEN /\ calls' = [calls EXCEPT ![i] = [@ EXCEPT !.tpc = "fin", !.res_kind = "raised"]]
          /\ UNCHANGED <<status, image_matching, fp_databases, task_lock, event_gens>>
     ELSE IF ~UsesLock(backend, name)
     THEN RunSegment(i, 0, NoEntry, task_lock)
     ELSE IF CanTake(task_lock)
     THEN RunSegment(i, 0, NoEntry, [task_lock EXCEPT !.locked = TRUE])
     ELSE /\ task_lock' = [task_lock EXCEPT !.waiters = Append(@, i)]
          /\ calls' = [calls EXCEPT ![i] = [@ EXCEPT !.tpc = "wait"]]
          /\ UNCHANGED <<status, image_matching, fp_databases, event_gens>>
  /\ UNCHANGED <<unsettable, config, variables, backend, fresh, nodeset, phase, linked, handlers,
                 tasks_running, state_vars>>

\* A task waiting for the lock is woken by release() and takes the lock.
TaskAcquire(i) ==
  /\ calls[i].tpc = "wait"
  /\ ~task_lock.locked
  /\ task_lock.waiters # <<>> /\ Head(task_lock.waiters) = i
  /\ RunSegment(i, 0, NoEntry, [locked |-> TRUE, waiters |-> Tail(task_lock.waiters)])
  /\ UNCHANGED <<unsettable, config, variables, backend, fresh, nodeset, phase, linked, handlers,
                 tasks_running, state_vars>>

\* An asyncio.sleep inside the body ends.
TaskResume(i) ==
  /\ calls[i].tpc \in {"s1", "s2"}
  /\ LET stage == IF calls[i].tpc = "s1" THEN 1 ELSE 2 IN
       \E x \in Picks(i, stage) : RunSegment(i, stage, x, task_lock)
  /\ UNCHANGED <<unsettable, config, variables, backend, fresh, nodeset, phase, linked, handlers,
                 tasks_running, state_vars>>

\* "await event_gen.trigger()": the event goes out with the attributes the
\* generator carries at that moment.
TaskEmit(i) ==
  /\ calls[i].tpc = "emit"
  /\ calls' = [calls EXCEPT ![i] =
                 [@ EXCEPT !.tpc = "fin", !.emitted = @ + 1,
                           !.event = event_gens[calls[i].svc]]]
  /\ UNCHANGED <<unsettable, config, variables, backend, fresh, nodeset, phase, linked, handlers, event_gens,
                 tasks_running, state_vars, status, image_matching, fp_databases,
                 task_lock>>

\* The finally clause: the State variables get the current snapshot, then
\* the task ends (with the exception, if one is on its way).
TaskFinally(i) ==
  /\ calls[i].tpc = "fin"
  /\ state_vars' = update_state(state_vars, internal_get_status(status).snapshot)
  /\ calls' = [calls EXCEPT ![i] = [@ EXCEPT !.tpc = "done", !.republished = TRUE]]
  /\ status' = internal_get_status(status).status
  /\ UNCHANGED <<unsettable, config, variables, backend, fresh, nodeset, phase, linked, handlers, event_gens,
                 tasks_running, image_matching, fp_databases, task_lock>>

\* Mutant of discard: the handle stays.
discard_Kept(set, h) == set

\* set.discard(task)
discard(set, h) == set \ {h}

\* The done callback of a finished task, run by the loop:
\* tasks_running.discard(task).
DoneCallback(i) ==
  /\ calls[i].tpc = "done"
  /\ tasks_running' = discard(tasks_running, i)
  /\ calls' = [calls EXCEPT ![i] =
                 [@ EXCEPT !.tpc = "removed",
                           !.discards = IF i \in tasks_running /\ i \notin tasks_running'
                                        THEN @ + 1 ELSE @]]
  /\ UNCHANGED <<unsettable, config, variables, backend, fresh, nodeset, phase, linked, handlers, event_gens,
                 state_vars, status, image_matching, fp_databases, task_lock>>

\* -------------------------------------------------------------- the system
Next ==
  \/ initialize_nodeset
  \/ periodic_state_update
  \/ \E i \in Calls, k \in linked :
       \E args \in InputArgs(backend, MethodOf(k)) : ServiceAsync(i, k, args)
  \/ \E i \in Calls, k \in linked :
       \E args \in InputArgs(backend, MethodOf(k)) : ServiceSync(i, k, args)
  \/ \E i \in Calls : TaskStart(i)
  \/ \E i \in Calls : TaskAcquire(i)
  \/ \E i \in Calls : TaskResume(i)
  \/ \E i \in Calls : TaskEmit(i)
  \/ \E i \in Calls : TaskFinally(i)
  \/ \E i \in Calls : DoneCallback(i)

Spec == Init /\ [][Next]_vars

\* ------------------------------------------------------------- vocabulary
Invoked(i) == calls[i].svc # 0

IsAsyncCall(i) == Invoked(i) /\ handlers[calls[i].svc].returns_async

IsSyncCall(i) == Invoked(i) /\ ~handlers[calls[i].svc].returns_async

FuncOf(i) == handlers[calls[i].svc].func

\* The handler of call i has ended, by a reply or by an exception.
HandlerEnded(i) == calls[i].hpc \in {"returned", "raised"}

\* The backend call of call i is under way: created, waiting for the lock or
\* inside the body.
BackendRunning(i) == calls[i].tpc \in {"created", "wait", "s1", "s2"}

\* The background task of call i has not ended yet.
TaskRunning(i) == calls[i].tpc \in {"created", "wait", "s1", "s2", "emit", "fin"}

\* The background task of call i has ended (by return or by an exception).
TaskFinished(i) == calls[i].tpc \in {"done", "removed"}

\* Call i is inside the critical section of its backend method.
InCritical(i) ==
  /\ Invoked(i)
  /\ calls[i].tpc \in {"s1", "s2"}
  /\ UsesLock(backend, FuncOf(i))

Dispatched == Cardinality({i \in Calls : calls[i].tpc # "none"})

\* Async calls whose task has ended.
Completed == Cardinality({i \in Calls : TaskFinished(i)})

\* Async calls whose done callback has run.
CallbackRun == Cardinality({i \in Calls : calls[i].tpc = "removed"})

\* ------------------------------------------------------------------ claims

\* C1: an ASYNC handler's reply has exactly the PriorInfo fields and is the
\* estimator's output (or the default), never the backend's result.
C1_AsyncReplyIsPriorInfo ==
  \A i \in Calls :
    IsAsyncCall(i) =>
      /\ calls[i].hpc = "returned"
      /\ DOMAIN calls[i].reply = PriorInfoFields
      /\ calls[i].reply = AsyncPriorInfo(handlers[calls[i].svc])

\* C1 witness: the handler has returned its reply while the backend call it
\* dispatched is in the middle of its body.
C1_Witness ==
  \E i \in Calls :
    /\ IsAsyncCall(i)
    /\ calls[i].hpc = "returned"
    /\ calls[i].tpc \in {"s1", "s2"}
    /\ calls[i].res_kind = "none"

\* C2 (as claimed): a SYNC handler's invocation ends only once the bound
\* backend method has run to completion and its mapping of result fields
\* is there.
C2_SyncEndsAfterBackendValue ==
  \A i \in Calls :
    (IsSyncCall(i) /\ HandlerEnded(i)) => calls[i].res_kind = "mapping"

\* C3 (as claimed): a SYNC invocation whose backend method did not fail
\* replies with the merged envelope: every estimator field and every field
\* of the backend's result.
C3_SyncReplyIsMergedEnvelope ==
  \A i \in Calls :
    (IsSyncCall(i) /\ HandlerEnded(i) /\ calls[i].res_kind # "raised") =>
      /\ calls[i].hpc = "returned"
      /\ (DOMAIN SyncPriorInfo(handlers[calls[i].svc])) \subseteq DOMAIN calls[i].reply
      /\ (DOMAIN calls[i].res) \subseteq DOMAIN calls[i].reply

\* C4: a handle is in the registry as long as its task runs, leaves it
\* exactly once, and only after the task has ended; after the done callback
\* it is gone.  The publisher's task never ends and keeps its handle.
C4_HandleRemovedOnceOnCompletion ==
  /\ \A i \in Calls :
       /\ TaskRunning(i) => (i \in tasks_running /\ calls[i].discards = 0)
       /\ calls[i].tpc = "done" => (i \in tasks_running /\ calls[i].discards = 0)
       /\ calls[i].tpc = "removed" => (i \notin tasks_running /\ calls[i].discards = 1)
       /\ calls[i].tpc = "none" => i \notin tasks_running
  /\ phase = "running" => PUBLISHER \in tasks_running

\* C4 witness: one task has ended (by an exception) and its handle is gone
\* while another task still runs and its handle is kept.
C4_Witness ==
  \E i, j \in Calls :
    /\ calls[i].tpc = "removed" /\ calls[i].res_kind = "raised"
    /\ i \notin tasks_running
    /\ TaskRunning(j) /\ j \in tasks_running

\* C5 (as claimed): the registry's size is at most dispatched minus
\* completed, and the registry is empty once every dispatched call completed.
C5_RegistrySizeOriginal ==
  phase = "running" =>
    /\ Cardinality(tasks_running) <= Dispatched - CallbackRun
    /\ (Dispatched = CallbackRun => tasks_running = {})

\* C5 (amended): not counting the publisher's own handle, the registry's
\* size is at most dispatched minus completed, a call counting as completed
\* once its done callback has run; when every dispatched call has completed
\* the registry holds the publisher's handle and nothing else.
C5_RegistrySizeAmended ==
  phase = "running" =>
    /\ Cardinality(tasks_running \ {PUBLISHER}) <= Dispatched - CallbackRun
    /\ Cardinality(tasks_running) <= 1 + (Dispatched - Completed)
                                       + Cardinality({i \in Calls : calls[i].tpc = "done"})
    /\ (Dispatched = CallbackRun => tasks_running = {PUBLISHER})

\* C5 witness: calls were dispatched, all have completed, and only the
\* publisher's handle is left.
C5_Witness ==
  /\ Dispatched = MaxCalls
  /\ CallbackRun = Dispatched
  /\ tasks_running = {PUBLISHER}

\* C6 (as claimed): when the backend call of an async invocation returned a
\* result, exactly one completion event went out for it, with outcome
\* success and every named field of the result.
C6_SuccessEventExactlyOnce ==
  \A i \in Calls :
    (IsAsyncCall(i) /\ TaskFinished(i) /\ calls[i].res_kind \in {"mapping", "coroutine"}) =>
      /\ calls[i].emitted = 1
      /\ "ServiceExecutionResult" \in DOMAIN calls[i].event
      /\ calls[i].event["ServiceExecutionResult"] = 0
      /\ \A f \in DOMAIN calls[i].res :
           f \in DOMAIN calls[i].event /\ calls[i].event[f] = calls[i].res[f]

\* C7 (as claimed): when the backend method of an async invocation raised,
\* the caller got an accepted PriorInfo and a completion event with outcome
\* error went out.
C7_ErrorEventEmitted ==
  \A i \in Calls :
    (IsAsyncCall(i) /\ TaskFinished(i) /\ calls[i].res_kind = "raised") =>
      /\ calls[i].hpc = "returned"
      /\ calls[i].reply["ServiceTriggerResult"] = 1
      /\ calls[i].emitted >= 1
      /\ "ServiceExecutionResult" \in DOMAIN calls[i].event
      /\ calls[i].event["ServiceExecutionResult"] = 1

\* At most one call is inside a critical section, and the lock is held then.
MutualExclusion ==
  /\ Cardinality({i \in Calls : InCritical(i)}) <= 1
  /\ (\E i \in Calls : InCritical(i)) => task_lock.locked

\* While a call stays inside its critical section without taking a step,
\* nobody else changes the status, the databases or the image matching.
NoInterleavedMutation ==
  \A i \in Calls :
    (InCritical(i) /\ calls'[i] = calls[i]) =>
      /\ status' = status
      /\ fp_databases' = fp_databases
      /\ image_matching' = image_matching

\* C8: at most one mutating operation is inside its critical section at any
\* time, and its status transitions and database changes are not interleaved
\* with those of another.
C8_MutatingCallsSerialized == []MutualExclusion /\ [][NoInterleavedMutation]_vars

\* C8 witness: two mutating calls are dispatched at once; one is inside its
\* critical section, the other waits for the lock.
C8_Witness ==
  \E i, j \in Calls :
    /\ InCritical(i)
    /\ calls[j].tpc = "wait"
    /\ FuncOf(i) \in {"add_part", "trace_part"}
    /\ FuncOf(j) \in {"reset_system", "set_image_matching_type", "add_part", "trace_part"}

\* C9 (as claimed): in both backends a get_status call never waits for the
\* exclusion lock.
C9_GetStatusNeverWaitsOriginal ==
  \A i \in Calls :
    (Invoked(i) /\ FuncOf(i) = "get_status") => calls[i].tpc # "wait"

\* C9 (amended): the mockup's get_status never waits for the lock and never
\* holds it; the _get_status snapshot of the publisher can be taken whatever
\* the lock's state; the echo's get_status runs its body holding the lock.
C9_StatusReadsAmended ==
  /\ \A i \in Calls :
       (Invoked(i) /\ FuncOf(i) = "get_status" /\ backend = "mockup") =>
         /\ calls[i].tpc # "wait"
         /\ ~InCritical(i)
  /\ \A i \in Calls :
       (Invoked(i) /\ FuncOf(i) = "get_status" /\ backend = "echo"
          /\ calls[i].tpc = "s1") =>
         /\ task_lock.locked
         /\ \A j \in Calls : InCritical(j) => j = i
  /\ phase = "running" => ENABLED periodic_state_update

\* C9 witness: on the mockup a get_status call issued after a mutating call
\* has ended while that call is still inside its critical section, and the
\* State variables show the call's intermediate status.
C9_Witness ==
  \E i, j \in Calls :
    /\ backend = "mockup"
    /\ j < i
    /\ Invoked(i) /\ FuncOf(i) = "get_status" /\ TaskFinished(i)
    /\ InCritical(j) /\ task_lock.locked
    /\ status.run_state \in {"ACQUIRING_IMAGE", "COMMAND_RUNNING"}
    /\ state_vars["RunState"] = status.run_state

\* Every ended task has republished, and did so after its event (if any).
RepublishedWhenFinished ==
  \A i \in Calls : TaskFinished(i) <=> calls[i].republished

\* The republishing step writes the current snapshot, and no event of the
\* call goes out at or after it.
RepublishIsLast ==
  \A i \in Calls :
    /\ (~calls[i].republished /\ calls'[i].republished) =>
         /\ StateVarNames \subseteq DOMAIN state_vars'
         /\ \A k \in StateVarNames : state_vars'[k] = as_dict(status')[k]
         /\ calls'[i].emitted = calls[i].emitted
    /\ calls[i].republished => calls'[i].emitted = calls[i].emitted

\* C10: whenever a background task ends (backend succeeded, raised, or the
\* event could not be filled) the State variables were rewritten from the
\* current DeviceStatus, after the completion event, if any, went out.
C10_RepublishAfterEvent == []RepublishedWhenFinished /\ [][RepublishIsLast]_vars

\* C10 witness: one task ended after its event went out and another ended by
\* an exception without an event; both have republished.
C10_Witness ==
  \E i, j \in Calls :
    /\ TaskFinished(i) /\ calls[i].emitted = 1 /\ calls[i].republished
    /\ TaskFinished(j) /\ calls[j].res_kind = "raised" /\ calls[j].emitted = 0
    /\ calls[j].republished

\* The body of call i has returned after writing a status of its own (every
\* body but get_status and the not-ready exit of the mockup's add_part and
\* trace_part), and its completion event has not gone out yet.
FinalStatusWritten(i) ==
  /\ IsAsyncCall(i)
  /\ calls[i].tpc = "emit"
  /\ calls[i].emitted = 0
  /\ FuncOf(i) # "get_status"
  /\ ~(calls[i].res = NotExecuted /\ ~IsReady(status))

\* No write puts the final status of call i into the State variables while
\* the completion event of call i is still to come.
FinalStatusHeldBack ==
  \A i \in Calls :
    (FinalStatusWritten(i) /\ calls'[i] = calls[i] /\ state_vars' # state_vars) =>
      state_vars' # update_state(state_vars, as_dict(status))

\* C11 (as claimed): under every interleaving with the publisher and with
\* other handlers, the State variables never show the final DeviceStatus
\* written by an async invocation's backend call before that invocation's
\* completion event has been emitted.
C11_FinalStatusAfterEvent == [][FinalStatusHeldBack]_vars

\* Call i takes a step of its backend method body: the task is started,
\* gets the lock or comes back from a sleep.
BodyStep(i) ==
  /\ calls[i].tpc \in {"created", "wait", "s1", "s2"}
  /\ calls'[i] # calls[i]

\* Call i takes a step of the dispatch layer: its handler runs, its event is
\* emitted, its finally clause runs or its done callback runs.
DispatchStep(i) ==
  \/ calls'[i].hpc # calls[i].hpc
  \/ (calls[i].tpc \in {"emit", "fin", "done"} /\ calls'[i] # calls[i])

\* The status changes in steps of backend bodies only; handler, notifier,
\* startup and every write of the State variables leave it as it is.
StatusFrame ==
  /\ status' # status => \E i \in Calls : BodyStep(i)
  /\ (\E i \in Calls : DispatchStep(i)) => status' = status
  /\ phase' # phase => status' = status
  /\ state_vars' # state_vars => status' = status

\* C12: no action of the dispatch layer (sync handler, async handler,
\* completion notifier, update_state, periodic publisher) changes a field of
\* the DeviceStatus; the fields change only inside backend method bodies.
C12_DispatchNeverWritesStatus == [][StatusFrame]_vars

\* C12 witness: a backend body has changed the status, the notifier has
\* republished it and the task has ended; the State variables show it.
C12_Witness ==
  \E i \in Calls :
    /\ IsAsyncCall(i) /\ TaskFinished(i) /\ calls[i].republished
    /\ status # FpStatusFresh(fresh)
    /\ StateVarNames \subseteq DOMAIN state_vars
    /\ \A k \in StateVarNames : state_vars[k] = as_dict(status)[k]

\* ------------------------------------------------- linking specification
\* link_services() over the interfaces a nodeset may declare: the services
\* in any order, each with its shapes present or missing, its result type
\* definition loaded or not, and its link accepted or rejected by the engine.
Chars_SelfTest == <<"S","e","l","f","T","e","s","t">>
Chars_register == <<"r","e","g","i","s","t","e","r">>

\* Browse names of declared services: two the backends implement, one they
\* do not, and one the SWAP-IT architecture handles itself.
LinkNames == {"AddPart", "GetStatus", "SelfTest", "register"}

CharsOf(name) ==
  CASE name = "AddPart" -> Chars_AddPart
    [] name = "GetStatus" -> Chars_GetStatus
    [] name = "SelfTest" -> Chars_SelfTest
    [] name = "register" -> Chars_register

\* What the interface holds for one service:
\*   async       <name>ServiceFinishedEventType only
\*   sync        <name>ServiceExecutionSyncResultDataType only, definition loaded
\*   both        both types
\*   none        neither type
\*   sync_nodef  the sync type, without a loaded definition
\*   rejected    the event type, and link_method() raises
LinkKinds == {"async", "sync", "both", "none", "sync_nodef", "rejected"}

DeclaredService(name, kind) ==
  [name |-> CharsOf(name),
   event_type |-> kind \in {"async", "both", "rejected"},
   sync_type |-> kind \in {"sync", "both", "sync_nodef"},
   sync_def |-> kind \in {"sync", "both"},
   link_ok |-> kind # "rejected"]

\* The nodesets of the linking specification: MaxServices services with
\* distinct names; async_def says whether the definition of the general
\* async result type is loaded.
LinkNodesets ==
  {ns \in [async_def : BOOLEAN,
           services : [1 .. MaxServices -> LinkNames \X LinkKinds]] :
     \A j, k \in 1 .. MaxServices : j # k => ns.services[j][1] # ns.services[k][1]}

LoadedInterface(ns) ==
  [async_def |-> ns.async_def,
   services |-> [k \in 1 .. MaxServices |->
                   DeclaredService(ns.services[k][1], ns.services[k][2])]]

InitLink ==
  /\ backend \in Backends
  /\ fresh = "SYSTEM_READY"
  /\ nodeset \in LinkNodesets
  /\ phase = "constructed"
  /\ linked = {}
  /\ handlers = EmptyDict
  /\ event_gens = EmptyDict
  /\ tasks_running = {}
  /\ state_vars = EmptyDict
  /\ status = FpStatusFresh(fresh)
  /\ image_matching = "default"
  /\ fp_databases = <<>>
  /\ task_lock = [locked |-> FALSE, waiters |-> <<>>]
  /\ calls = [i \in Calls |-> NoCall]
  /\ config = ShippedConfig
  /\ variables = EmptyDict
  /\ unsettable = {}

\* initialize_nodeset() with the declared interface.
initialize_declared == StartupWith(LoadedInterface(nodeset))

\* A client calls a service no handler was linked to: the engine finds no
\* callback for the method node and answers with a bad status; nothing of
\* the server or the backend runs.
CallNotLinked(i, k) ==
  /\ phase = "running"
  /\ NextCall(i) /\ i <= MaxLinkCalls
  /\ k \in 1 .. MaxServices /\ k \notin linked
  /\ calls' = [calls EXCEPT ![i] = [@ EXCEPT !.svc = k, !.hpc = "not_found"]]
  /\ UNCHANGED <<unsettable, config, variables, backend, fresh, nodeset, phase, linked, handlers, event_gens,
                 tasks_running, state_vars, status, image_matching, fp_databases,
                 task_lock>>

NextLink ==
  \/ initialize_declared
  \/ \E i \in Calls, k \in 1 .. MaxServices : CallNotLinked(i, k)

SpecLink == InitLink /\ [][NextLink]_vars

\* --------------------------------------------------- linking vocabulary
Declared == 1 .. MaxServices

\* camel_to_snake of every browse name.
MethodNameOf == [n \in LinkNames |-> camel_to_snake(CharsOf(n))]

\* What is known about the declared interface and its linking: the services,
\* which services are left to the SWAP-IT architecture, and which have a
\* backend method of their snake_case name.
LinkFacts ==
  LET ifc == LoadedInterface(nodeset) IN
  [decl |-> ifc.services,
   async_def |-> ifc.async_def,
   skipped |-> [k \in Declared |-> nodeset.services[k][1] \in {"register", "unregister"}],
   matches |-> [k \in Declared |->
                  /\ nodeset.services[k][1] \notin {"register", "unregister"}
                  /\ MethodNameOf[nodeset.services[k][1]] \in BackendMethods]]

\* The log link_services has written for the declared interface.
LinkLog == link_services(backend, LoadedInterface(nodeset)).log

HasLog(log, level, k, what) ==
  \E n \in 1 .. Len(log) : log[n] = LogEntry(level, k, what)

HasShape(F, k) == F.decl[k].event_type \/ F.decl[k].sync_type

\* The definition of the result type service k would use is loaded.
DefinitionLoaded(F, k) ==
  IF F.decl[k].event_type THEN F.async_def ELSE F.decl[k].sync_def

\* Service k can be linked as far as it is concerned itself.
Linkable(F, k) ==
  /\ F.matches[k]
  /\ HasShape(F, k)
  /\ DefinitionLoaded(F, k)
  /\ F.decl[k].link_ok

\* The loop of link_services comes to service k: the engine rejected the
\* link of no service before k.
Reached(F, k) ==
  \A j \in Declared :
    (j < k /\ F.matches[j] /\ HasShape(F, j) /\ DefinitionLoaded(F, j)) => F.decl[j].link_ok

HasHandler(k) == k \in DOMAIN handlers

C14_FailureNeverStopsLinking ==
  phase = "running" =>
    LET F == LinkFacts IN
    \A k \in Declared : Linkable(F, k) => k \in linked

C16_DoubleShapeWarned ==
  phase = "running" =>
    LET F == LinkFacts
        log == LinkLog
    IN
    \A k \in Declared :
      (HasHandler(k) /\ F.decl[k].event_type /\ F.decl[k].sync_type) =>
        /\ handlers[k].returns_async
        /\ \E n \in 1 .. Len(log) : log[n].service = k /\ log[n].level = "WARN"

\* The handler of call i has an estimator.
HasEstimator(i) == Invoked(i) /\ handlers[calls[i].svc].has_prior_info

\* The backend method body of call i has started.
BodyStarted(i) == calls[i].tpc \notin {"none", "created"}

\* The estimator of an invoked handler has been called; a body that has
\* started has the estimator's call behind it; after an estimator that
\* raised there is no task.
EstimatorFirst ==
  \A i \in Calls :
    HasEstimator(i) =>
      /\ calls[i].est \in {"called", "raised"}
      /\ BodyStarted(i) => calls[i].est = "called"
      /\ calls[i].est = "raised" =>
           (calls[i].tpc = "none" /\ i \notin tasks_running /\ calls[i].hpc = "raised")

\* The step that calls the estimator of call i leaves status, databases and
\* image matching as they are and does not start the body; the estimator is
\* not called again later.
EstimatorFrame ==
  \A i \in Calls :
    /\ (calls[i].est = "idle" /\ calls'[i].est # "idle") =>
         /\ status' = status
         /\ fp_databases' = fp_databases
         /\ image_matching' = image_matching
         /\ calls'[i].tpc \in {"none", "created"}
    /\ calls[i].est # "idle" => calls'[i].est = calls[i].est

\* C17: in every invocation of a handler with an estimator the estimator is
\* called before the bound backend method starts (ASYNC: before the task is
\* created), no estimator call changes DeviceStatus, databases or image
\* matching, and after an estimator that raised no backend call is started.
C17_EstimatorBeforeBackend == []EstimatorFirst /\ [][EstimatorFrame]_vars

\* C17 witness: the body of an ASYNC call is running after its estimator was
\* called, and a SYNC call's estimator was called as well.
C17_Witness ==
  \E i, j \in Calls :
    /\ IsAsyncCall(i) /\ HasEstimator(i) /\ calls[i].est = "called"
    /\ calls[i].tpc \in {"s1", "s2"}
    /\ calls[i].reply = PriorInfoOf(FuncOf(i))
    /\ IsSyncCall(j) /\ HasEstimator(j) /\ calls[j].est = "called"

\* The bound backend method of the SYNC call i raised: func(*input_args)
\* does not accept the arguments the call came with.
SyncBackendRaised(i) ==
  /\ IsSyncCall(i)
  /\ calls[i].hpc # "idle"
  /\ calls[i].est # "raised"
  /\ ~ArgsFit(backend, FuncOf(i), calls[i].args)

\* C18: a SYNC handler whose bound backend method raised ends with the
\* exception (it reaches the caller of the handler) and hands back no reply;
\* it never ends as a returned handler.
C18_SyncBackendErrorPropagates ==
  \A i \in Calls :
    SyncBackendRaised(i) =>
      /\ calls[i].hpc = "raised"
      /\ calls[i].res_kind = "raised"
      /\ calls[i].reply = EmptyDict

\* C18 witness: a SYNC call of the mockup came with arguments its method does
\* not accept and ended with the exception.
C18_Witness ==
  \E i \in Calls :
    /\ SyncBackendRaised(i)
    /\ backend = "mockup"
    /\ calls[i].hpc = "raised"
    /\ calls[i].res_kind = "raised"

\* ------------------------------------------- specification with scheduling
\* run() awaits initialize and init_threads one after the other, and the
\* event loop wakes the publisher's task after every asyncio.sleep(interval):
\* start-up and the publisher's round happen whenever they stay possible.
\* Nothing is assumed about the tasks of the calls, which may stall for good.
FairSpec ==
  Spec /\ WF_vars(initialize_nodeset) /\ WF_vars(periodic_state_update)

\* The State variables show the snapshot of the backend's status.
Published ==
  /\ StateVarNames \subseteq DOMAIN state_vars
  /\ \A n \in StateVarNames : state_vars[n] = as_dict(status)[n]

\* C19: under fair scheduling of start-up and the publisher, when the
\* backend's status stops changing the State variables eventually equal its
\* snapshot and stay equal, whether calls are in flight or their tasks never
\* come to the event and the republishing after it.
C19_PublisherEventuallyConsistent ==
  (<>[][status' = status]_status) => <>[]Published

\* C19 witness: the only call dispatched has changed the status in its body,
\* which has not come to its end, and the State variables show that status:
\* the publisher's round wrote it.
C19_Witness ==
  \E i \in Calls :
    /\ \A j \in Calls \ {i} : ~Invoked(j)
    /\ IsAsyncCall(i)
    /\ calls[i].tpc \in {"s1", "s2"}
    /\ status # FpStatusFresh(fresh)
    /\ PUBLISHER \in tasks_running
    /\ Published

\* The body of a reset_system call i returns in this step.
ResetReturns(i) ==
  /\ Invoked(i)
  /\ FuncOf(i) = "reset_system"
  /\ calls[i].tpc \in {"created", "wait", "s1", "s2"}
  /\ calls'[i].tpc \in {"emit", "fin"}

\* The status reset_system leaves behind.
ResetStatus == FpStatusUpdate("SYSTEM_READY", "RESULT_UNDEFINED", "NO_ERROR", "")

\* C20: in the step in which a reset_system body returns, on either backend
\* and whatever the status was before, the status becomes SYSTEM_READY,
\* RESULT_UNDEFINED, NO_ERROR with an empty current command, and the body
\* returns a result, not an exception.
C20_ResetLeavesReady ==
  [][\A i \in Calls :
       ResetReturns(i) => (status' = ResetStatus /\ calls'[i].res_kind = "mapping")]_vars

\* C20 witness: on a device that started in SYSTEM_ERROR a reset_system body
\* has returned, its event is not out yet, and the status is the ready one.
C20_Witness ==
  \E i \in Calls :
    /\ Invoked(i)
    /\ FuncOf(i) = "reset_system"
    /\ fresh = "SYSTEM_ERROR"
    /\ calls[i].tpc = "emit"
    /\ calls[i].res_kind = "mapping"
    /\ status = ResetStatus

\* ------------------------------------------------- backend specification
\* The operations of the backends over richer inputs: the services of the
\* shipped interface (all ASYNC), called with argument lists that make the
\* duplicate checks, the filters and the search order of the mockup matter,
\* on a device whose databases hold what earlier add_part calls left there.

\* The entry add_part stores for a part.
PartEntry(part_id, batch_id, part_type) ==
  FpDatabaseEntry(new_fingerprint(part_id, batch_id, part_type), part_id, batch_id,
                  part_type)

\* add_part argument lists: the id check alone, both checks, the fingerprint
\* check alone, a second part without checks, and a part id that is not a
\* str.
AddPartArgs ==
  { <<"DB1", TRUE, FALSE, "P1", "B1", "T1">>,
    <<"DB1", TRUE, TRUE, "P1", "B1", "T1">>,
    <<"DB2", FALSE, TRUE, "P1", "B1", "T1">>,
    <<"DB2", FALSE, FALSE, "P2", "B2", "T1">>,
    <<"DB1", FALSE, FALSE, NotAStr, "B1", "T1">> }

\* trace_part argument lists: one reference database; every database with a
\* batch filter; two reference databases with a type filter; a batch filter
\* nothing passes.
TracePartArgs ==
  { <<"DB2", <<"D","B","1">>, FALSE, NoChars, FALSE, NoChars, FALSE>>,
    <<"DB3", NoChars, TRUE, <<"B","2">>, TRUE, NoChars, FALSE>>,
    <<"DB1", <<"D","B","2",";","D","B","1">>, FALSE, NoChars, FALSE,
      <<"T","1">>, TRUE>>,
    <<"DB1", NoChars, FALSE, <<"B","9">>, TRUE, NoChars, FALSE>> }

BackendArgs(b, name) ==
  IF b = "echo" THEN GoodArgs(name)
  ELSE CASE name = "add_part" -> AddPartArgs
         [] name = "trace_part" -> TracePartArgs
         [] OTHER -> GoodArgs(name)

\* Databases as add_part (and trace_part) calls leave them, in insertion
\* order: none; one part; two databases; three databases, one of them
\* emptied by a trace_part.
StoredDatabases ==
  { <<>>,
    << [name |-> "DB1", entries |-> {PartEntry("P1", "B1", "T1")}] >>,
    << [name |-> "DB1", entries |-> {PartEntry("P1", "B1", "T1"),
                                     PartEntry("P2", "B2", "T1")}],
       [name |-> "DB2", entries |-> {PartEntry("P3", "B2", "T2")}] >>,
    << [name |-> "DB2", entries |-> {PartEntry("P3", "B2", "T2")}],
       [name |-> "DB1", entries |-> {PartEntry("P1", "B1", "T1")}],
       [name |-> "DB3", entries |-> {}] >> }

\* A constructed server over a backend: fresh, or (mockup) with stored
\* databases and the status reset_system left after they were filled.
InitBackend ==
  /\ backend \in Backends
  /\ fresh \in FreshRunStates
  /\ nodeset = "all_async"
  /\ phase = "constructed"
  /\ linked = {}
  /\ handlers = EmptyDict
  /\ event_gens = EmptyDict
  /\ tasks_running = {}
  /\ state_vars = EmptyDict
  /\ fp_databases \in IF backend = "mockup" THEN StoredDatabases ELSE {<<>>}
  /\ status = IF fp_databases = <<>> THEN FpStatusFresh(fresh)
              ELSE FpStatusUpdate("SYSTEM_READY", "RESULT_UNDEFINED", "NO_ERROR", "")
  /\ image_matching = "default"
  /\ task_lock = [locked |-> FALSE, waiters |-> <<>>]
  /\ calls = [i \in Calls |-> NoCall]
  /\ config = ShippedConfig
  /\ variables = EmptyDict
  /\ unsettable = {}

NextBackend ==
  \/ initialize_nodeset
  \/ periodic_state_update
  \/ \E i \in Calls, k \in linked :
       \E args \in BackendArgs(backend, MethodOf(k)) : ServiceAsync(i, k, args)
  \/ \E i \in Calls : TaskStart(i)
  \/ \E i \in Calls : TaskAcquire(i)
  \/ \E i \in Calls : TaskResume(i)
  \/ \E i \in Calls : TaskEmit(i)
  \/ \E i \in Calls : TaskFinally(i)
  \/ \E i \in Calls : DoneCallback(i)

SpecBackend == InitBackend /\ [][NextBackend]_vars

\* ---------------------------------------------------- backend vocabulary
\* Call i runs method name of the mockup.
MockupCall(i, name) == backend = "mockup" /\ Invoked(i) /\ FuncOf(i) = name

\* The body of call i returns in this step, after its second wait.
ReturnsFromWork(i) == calls[i].tpc = "s2" /\ calls'[i].tpc \in {"emit", "fin"}

\* Some database holds an entry with the part id / the fingerprint of the
\* part an add_part argument list names.
IdStored(dbs, args) == \E e \in AllEntries(dbs) : e.part_id = args[4]

FpStored(dbs, args) ==
  \E e \in AllEntries(dbs) : e.fingerprint = new_fingerprint(args[4], args[5], args[6])

\* An add_part that checks ids and meets a stored part of its id ends in
\* SYSTEM_ERROR / ID_DUPLICATE_FOUND (also when the fingerprint check meets
\* one too) and leaves the databases as they are; one that meets nothing it
\* checks for stores its part.
DuplicateRejected ==
  \A i \in Calls :
    (MockupCall(i, "add_part") /\ ReturnsFromWork(i)) =>
      LET a == calls[i].args IN
      /\ (a[2] /\ IdStored(fp_databases, a)) =>
           /\ status'.run_state = "SYSTEM_ERROR"
           /\ status'.error_type = "ID_DUPLICATE_FOUND"
           /\ fp_databases' = fp_databases
      /\ (~(a[2] /\ IdStored(fp_databases, a)) /\ ~(a[3] /\ FpStored(fp_databases, a))) =>
           /\ DbHas(fp_databases', a[1])
           /\ PartEntry(a[4], a[5], a[6]) \in DbEntries(fp_databases', a[1])
           /\ IsReady(status')

\* An event tells of a duplicate: its outcome is not success, or its
\* PartIDsOfDuplicates holds something else than nothing ("" or the text of
\* Python's None).
ReportsDuplicate(ev) ==
  \/ ("ServiceExecutionResult" \in DOMAIN ev /\ ev["ServiceExecutionResult"] # 0)
  \/ ("PartIDsOfDuplicates" \in DOMAIN ev /\ ev["PartIDsOfDuplicates"] \notin {"", "None"})

\* The completion event of an add_part that met an id duplicate tells of it.
DuplicateEventReports ==
  \A i \in Calls :
    (MockupCall(i, "add_part") /\ calls[i].local.id_duplicates # {} /\ calls[i].emitted = 1)
      => ReportsDuplicate(calls[i].event)

\* C21 (as claimed): on the mockup, an add_part with check_id_duplicates
\* whose part id is already stored ends with a completion event that reports
\* a duplicate outcome, leaves the status at SYSTEM_ERROR with
\* ID_DUPLICATE_FOUND (also when a fingerprint duplicate is found as well)
\* and adds nothing to any database, while the add_part before it, which met
\* no duplicate, added the part.
C21_DuplicateAddPart == []DuplicateEventReports /\ [][DuplicateRejected]_vars

\* The part of C21 about status and databases alone.
C21_StatusAndDatabases == [][DuplicateRejected]_vars

\* Two successive add_part calls for the same part id with the id check: the
\* first stored the part, the second met it and its event is out.
C21_Scenario ==
  \E i, j \in Calls :
    /\ i < j
    /\ MockupCall(i, "add_part") /\ MockupCall(j, "add_part")
    /\ calls[i].args[4] = calls[j].args[4] /\ calls[j].args[2]
    /\ calls[i].local.id_duplicates = {} /\ calls[i].local.fp_duplicates = {}
    /\ TaskFinished(i)
    /\ calls[j].local.id_duplicates # {}
    /\ calls[j].emitted = 1
    /\ status.error_type = "ID_DUPLICATE_FOUND"

\* The elements of a list.
Elems(seq) == {seq[n] : n \in 1 .. Len(seq)}

\* The databases a trace_part argument list asks to search: the reference
\* databases, the target, and with trace_all_databases every database.
Searched(dbs, a) ==
  Elems(to_list(a[2])) \cup {a[1]} \cup (IF a[3] THEN Elems(DbNames(dbs)) ELSE {})

\* Entry e passes the batch filter and the type filter of argument list a.
Passes(e, a) ==
  /\ a[5] => e.batch_id \in Elems(to_list(a[4]))
  /\ a[7] => e.part_type \in Elems(to_list(a[6]))

\* No searched database holds an entry that passes the filters.
NothingToFind(dbs, a) ==
  \A n \in 1 .. Len(dbs) :
    dbs[n].name \in Searched(dbs, a) => \A e \in dbs[n].entries : ~Passes(e, a)

NoPartFound == TraceResult("", "", "", 0, 0, 0, 0)

\* The search step and the return step of a trace_part with nothing to find:
\* no database changes, nothing is created, the result is the "no part
\* found" one and the status is ready without error.
TraceFindsNothing ==
  \A i \in Calls :
    (MockupCall(i, "trace_part") /\ NothingToFind(fp_databases, calls[i].args)) =>
      /\ (calls[i].tpc = "s1" /\ calls'[i].tpc # "s1") =>
           /\ calls'[i].tpc = "s2"
           /\ fp_databases' = fp_databases
      /\ ReturnsFromWork(i) =>
           /\ calls'[i].res_kind = "mapping" /\ calls'[i].res = NoPartFound
           /\ IsReady(status')
           /\ fp_databases' = fp_databases
           /\ \A f \in DOMAIN NoPartFound : event_gens'[calls[i].svc][f] = NoPartFound[f]

\* Call i is the only invocation of its service.
OnlyCallOfService(i) == \A j \in Calls \ {i} : calls[j].svc # calls[i].svc

\* The event of a trace_part that found nothing carries the empty part and
\* zero confidence values.
NothingFoundEvent ==
  \A i \in Calls :
    (MockupCall(i, "trace_part") /\ calls[i].res = NoPartFound /\ calls[i].emitted = 1
       /\ OnlyCallOfService(i)) =>
      \A f \in DOMAIN NoPartFound : calls[i].event[f] = NoPartFound[f]

CapabilityTexts ==
  { <<"5">>, <<"1",",","2">>, <<"1",",","x">>, <<"a","b","c">>, <<"1",".","5">>,
    <<"t","r","u","e">> }

PropertyTexts == { <<"7">>, <<"2",".","5",",","y">> }

\* The texts among them whose elements all convert.
WellFormedTexts ==
  { <<"5">>, <<"1",",","2">>, <<"a","b","c">>, <<"1",".","5">>, <<"t","r","u","e">>,
    <<"7">> }

Configs ==
  { [entries |-> [Capability |-> c, Property |-> p],
     state |-> [n \in StateVarNames |->
                  IF n = missing THEN NoConfigEntry ELSE ConfigEntry(ConfigState[n])]] :
      c \in {NoConfigEntry} \cup {ConfigEntry(t) : t \in CapabilityTexts},
      p \in {NoConfigEntry} \cup {ConfigEntry(t) : t \in PropertyTexts},
      missing \in StateVarNames \cup {"none"} }

InitConfig ==
  /\ backend \in Backends
  /\ fresh \in FreshRunStates
  /\ nodeset = "all_async"
  /\ phase = "constructed"
  /\ linked = {}
  /\ handlers = EmptyDict
  /\ event_gens = EmptyDict
  /\ tasks_running = {}
  /\ state_vars = EmptyDict
  /\ status = FpStatusFresh(fresh)
  /\ image_matching = "default"
  /\ fp_databases = <<>>
  /\ task_lock = [locked |-> FALSE, waiters |-> <<>>]
  /\ calls = [i \in Calls |-> NoCall]
  /\ config \in Configs
  /\ variables = EmptyDict
  /\ unsettable = {}

NextConfig ==
  \/ initialize_nodeset
  \/ periodic_state_update

SpecConfig == InitConfig /\ [][NextConfig]_vars

\* init_variables logged something about variable v.
ConfigLogged(v) ==
  LET log == init_variables(config, EmptyDict).log
  IN \E n \in 1 .. Len(log) : log[n][2] = v

\* The entry of a Capabilities or Properties variable is there and well
\* formed.
WellFormed(entry) == entry.present /\ entry.text \in WellFormedTexts

\* C23 (as claimed): once initialize_nodeset has run, every variable whose
\* config entry is missing or malformed is logged and uninitialised, every
\* other variable is initialised, the services are linked and the publisher
\* runs.
C23_ConfigErrorTolerated ==
  phase # "constructed" =>
    /\ phase = "running" /\ PUBLISHER \in tasks_running /\ linked # {}
    /\ \A n \in 1 .. Len(ConfigVars) :
         LET v == ConfigVars[n] IN
         IF WellFormed(config.entries[v]) THEN v \in DOMAIN variables
         ELSE v \notin DOMAIN variables /\ ConfigLogged(v)
    /\ \A v \in StateVarNames :
         IF config.state[v].present THEN v \in DOMAIN state_vars
         ELSE v \notin DOMAIN state_vars /\ ConfigLogged(v)

\* The part of C23 that the code keeps: a Capabilities or Properties
\* variable without an entry is logged and skipped, and when nothing else is
\* wrong every other variable is initialised and start-up goes on.
C23_MissingEntryTolerated ==
  (phase # "constructed"
     /\ \A v \in StateVarNames : config.state[v].present
     /\ \A n \in 1 .. Len(ConfigVars) :
          config.entries[ConfigVars[n]].present => WellFormed(config.entries[ConfigVars[n]])) =>
    /\ phase = "running" /\ PUBLISHER \in tasks_running /\ linked # {}
    /\ StateVarNames \subseteq DOMAIN state_vars
    /\ \A n \in 1 .. Len(ConfigVars) :
         LET v == ConfigVars[n] IN
         IF config.entries[v].present THEN v \in DOMAIN variables
         ELSE v \notin DOMAIN variables /\ ConfigLogged(v)

\* ----------------------------------------- specification without estimators
\* The server over a sensor system that has no estimator methods.
InitBare ==
  /\ backend = BareBackend
  /\ fresh \in FreshRunStates
  /\ nodeset \in Nodesets
  /\ phase = "constructed"
  /\ linked = {}
  /\ handlers = EmptyDict
  /\ event_gens = EmptyDict
  /\ tasks_running = {}
  /\ state_vars = EmptyDict
  /\ status = FpStatusFresh(fresh)
  /\ image_matching = "default"
  /\ fp_databases = <<>>
  /\ task_lock = [locked |-> FALSE, waiters |-> <<>>]
  /\ calls = [i \in Calls |-> NoCall]
  /\ config = ShippedConfig
  /\ variables = EmptyDict
  /\ unsettable = {}

SpecBare == InitBare /\ [][Next]_vars

\* C24: an ASYNC handler of an operation without estimator returns a
\* PriorInfo with expected duration -1 (unknown), trigger result 1
\* (accepted) and an empty message, and has dispatched the background task:
\* the task exists and its handle was put into the registry.
C24_DefaultPriorInfoWithoutEstimator ==
  \A i \in Calls :
    (IsAsyncCall(i) /\ ~handlers[calls[i].svc].has_prior_info) =>
      /\ calls[i].hpc = "returned"
      /\ calls[i].est = "none"
      /\ calls[i].reply["ExpectedServiceExecutionDuration"] = -1
      /\ calls[i].reply["ServiceTriggerResult"] = 1
      /\ calls[i].reply["ServiceResultMessage"] = ""
      /\ calls[i].tpc # "none"
      /\ (i \in tasks_running \/ calls[i].tpc = "removed")

\* C24 witness: a handler without estimator has replied with the default
\* and the task it dispatched is inside the backend body.
C24_Witness ==
  \E i \in Calls :
    /\ IsAsyncCall(i) /\ ~handlers[calls[i].svc].has_prior_info
    /\ calls[i].hpc = "returned"
    /\ calls[i].reply["ExpectedServiceExecutionDuration"] = -1
    /\ calls[i].tpc \in {"s1", "s2"}
    /\ i \in tasks_running

\* C25: every operation method, awaited by the dispatch layer, yields a
\* mapping of named result fields: a backend call that returned has handed
\* back a mapping, and a finished asynchronous get_status has emitted one
\* completion event.
C25_OperationsYieldMappings ==
  \A i \in Calls :
    (IsAsyncCall(i) /\ calls[i].res_kind \notin {"none", "raised"}) =>
      /\ calls[i].res_kind = "mapping"
      /\ (FuncOf(i) = "get_status" /\ TaskFinished(i)) => calls[i].emitted = 1

\* C25, the other four methods: what they hand back is a mapping.
C25_OtherMethodsYieldMappings ==
  \A i \in Calls :
    (/\ IsAsyncCall(i)
     /\ FuncOf(i) # "get_status"
     /\ calls[i].res_kind \notin {"none", "raised"}) =>
      calls[i].res_kind = "mapping"

\* C25 scenario: an asynchronous get_status has returned and its task is over.
C25_Scenario ==
  \E i \in Calls :
    /\ IsAsyncCall(i) /\ FuncOf(i) = "get_status"
    /\ TaskFinished(i)
    /\ calls[i].res_kind # "raised"

\* C26: an executed add_part or trace_part takes run_state through
\* ACQUIRING_IMAGE, COMMAND_RUNNING and then SYSTEM_READY or SYSTEM_ERROR:
\* at its first wait the status is ACQUIRING_IMAGE, at its second
\* COMMAND_RUNNING, both with current_command naming the operation; the body
\* leaves the first wait only for the second and the second only by ending
\* with SYSTEM_READY or SYSTEM_ERROR and an empty current_command; such a
\* call enters SYSTEM_ERROR only from COMMAND_RUNNING.
AddOrTrace(i) == Invoked(i) /\ FuncOf(i) \in {"add_part", "trace_part"}

TransientStatus ==
  \A i \in Calls :
    AddOrTrace(i) =>
      /\ calls[i].tpc = "s1" =>
           /\ status.run_state = "ACQUIRING_IMAGE"
           /\ status.current_command = FuncOf(i)
      /\ calls[i].tpc = "s2" =>
           /\ status.run_state = "COMMAND_RUNNING"
           /\ status.current_command = FuncOf(i)

RunStateStep ==
  \A i \in Calls :
    (AddOrTrace(i) /\ calls'[i].tpc # calls[i].tpc) =>
      /\ (calls[i].tpc \in {"created", "wait"} /\ calls'[i].tpc # "wait"
          /\ IsReady(status) /\ calls'[i].res_kind # "raised") =>
           /\ calls'[i].tpc = "s1"
           /\ status'.run_state = "ACQUIRING_IMAGE"
      /\ calls[i].tpc = "s1" =>
           /\ calls'[i].tpc = "s2"
           /\ status'.run_state = "COMMAND_RUNNING"
      /\ calls[i].tpc = "s2" =>
           /\ calls'[i].tpc \notin {"s1", "s2"}
           /\ status'.run_state \in {"SYSTEM_READY", "SYSTEM_ERROR"}
           /\ status'.current_command = ""
      /\ (status'.run_state = "SYSTEM_ERROR" /\ status.run_state # "SYSTEM_ERROR") =>
           status.run_state = "COMMAND_RUNNING"

C26_RunStateSequence == []TransientStatus /\ [][RunStateStep]_vars

\* C26, the calls that run to their return: the same for every step but the
\* one at which an exception leaves a body.
BodyLeftByException ==
  \E i \in Calls :
    calls[i].tpc \in {"s1", "s2"} /\ calls'[i].res_kind = "raised"

C26_ReturningCallsSequence ==
  []TransientStatus /\ [][~BodyLeftByException => RunStateStep]_vars

\* C26 scenario: an executed add_part has ended with run_state still
\* COMMAND_RUNNING.
C26_Scenario ==
  \E i \in Calls :
    /\ Invoked(i) /\ FuncOf(i) = "add_part"
    /\ TaskFinished(i)
    /\ calls[i].res_kind = "raised"
    /\ status.run_state = "COMMAND_RUNNING"

\* ------------------------------- specification of the Completion Notifier
\* The event generators are objects of the OPC UA library; which attribute
\* names their setattr() raises for is theirs to decide.  Here they refuse
\* some of the names the backend results carry; the outcome field, which
\* every completion event type declares, is not among them.
UnsettableSets == {{"PartID"}, {"PartIDsOfDuplicates", "BatchID"}}

InitNotifier ==
  /\ backend \in Backends
  /\ fresh = "SYSTEM_READY"
  /\ nodeset = "all_async"
  /\ phase = "constructed"
  /\ linked = {}
  /\ handlers = EmptyDict
  /\ event_gens = EmptyDict
  /\ tasks_running = {}
  /\ state_vars = EmptyDict
  /\ fp_databases \in IF backend = "mockup"
                      THEN {dbs \in StoredDatabases : Len(dbs) = 2} ELSE {<<>>}
  /\ status = FpStatusUpdate("SYSTEM_READY", "RESULT_UNDEFINED", "NO_ERROR", "")
  /\ image_matching = "default"
  /\ task_lock = [locked |-> FALSE, waiters |-> <<>>]
  /\ calls = [i \in Calls |-> NoCall]
  /\ config = ShippedConfig
  /\ variables = EmptyDict
  /\ unsettable \in UnsettableSets

SpecNotifier == InitNotifier /\ [][NextBackend]_vars

\* C27: a result field whose name cannot be set on the completion event is
\* skipped with a logged notice, every other field of the result is set,
\* and the event is emitted exactly once.  At the step that fills the
\* generator: the notices are the refused names of the result, every other
\* item of the result is on the generator, and a refused name is left as it
\* was; a finished task with such a result has emitted one event.
FilledAt(i) == calls[i].tpc # "emit" /\ calls'[i].tpc = "emit"

FillSkipsUnsettable ==
  \A i \in Calls :
    FilledAt(i) =>
      LET res == calls'[i].res
          before == event_gens[calls[i].svc]
          after == event_gens'[calls[i].svc]
      IN /\ calls'[i].notices = (DOMAIN res) \cap unsettable
         /\ \A k \in (DOMAIN res) \ unsettable :
              k \in DOMAIN after /\ after[k] = res[k]
         /\ \A k \in (DOMAIN res) \cap unsettable :
              /\ k \in DOMAIN after <=> k \in DOMAIN before
              /\ k \in DOMAIN before => after[k] = before[k]

SkippedFieldEventOnce ==
  \A i \in Calls :
    (Invoked(i) /\ TaskFinished(i) /\ calls[i].notices # {}) => calls[i].emitted = 1

C27_UnsettableFieldSkipped == []SkippedFieldEventOnce /\ [][FillSkipsUnsettable]_vars

\* C27 witness: a task whose result had a refused field beside others has
\* finished: the notice is logged, the event went out once without the
\* refused name and with another field of the result.
C27_Witness ==
  \E i \in Calls :
    /\ Invoked(i) /\ TaskFinished(i)
    /\ calls[i].notices # {}
    /\ calls[i].emitted = 1
    /\ \A k \in calls[i].notices : k \notin DOMAIN calls[i].event
    /\ \E k \in (DOMAIN calls[i].res) \ (unsettable \cup {"ServiceExecutionResult"}) :
         k \in DOMAIN calls[i].event

\* C28: once a reset_system has completed, whenever no mutating operation
\* holds the lock, run_state is SYSTEM_READY or SYSTEM_ERROR and
\* current_command is empty.
MutatingMethods == BackendMethods \ {"get_status"}

ResetCompleted ==
  \E i \in Calls :
    /\ Invoked(i) /\ FuncOf(i) = "reset_system"
    /\ calls[i].tpc \in {"emit", "fin", "done", "removed"}
    /\ calls[i].res_kind = "mapping"

NoMutatingInLock ==
  \A i \in Calls : ~(InCritical(i) /\ FuncOf(i) \in MutatingMethods)

Settled ==
  /\ status.run_state \in {"SYSTEM_READY", "SYSTEM_ERROR"}
  /\ status.current_command = ""

C28_NoTransientLeftBehind == (ResetCompleted /\ NoMutatingInLock) => Settled

\* C28, the bodies that end by return: the same as long as no body was left
\* by an exception.
BodyRaised(i) ==
  /\ Invoked(i)
  /\ calls[i].res_kind = "raised"
  /\ ArgsFit(backend, FuncOf(i), calls[i].args)

C28_ReturnLeavesSettled ==
  (ResetCompleted /\ NoMutatingInLock /\ \A i \in Calls : ~BodyRaised(i)) => Settled

\* C28 scenario: after a completed reset an add_part was left by an
\* exception, and the lock is free.
C28_Scenario ==
  /\ ResetCompleted
  /\ ~task_lock.locked
  /\ \E i \in Calls : BodyRaised(i) /\ FuncOf(i) = "add_part"

\* C29: the mockup's trace_part searches the reference databases as given,
\* then the target database if it is not among them, then (with
\* trace_all_databases) every remaining database; the entry it returns
\* comes from the first database in that order that holds a candidate, and
\* an entry is a candidate iff it passes the batch and the type filter.
\* At the search step: an entry is found iff some searched database holds a
\* candidate; the found entry is a candidate taken out of a database of the
\* order before which no existing database of the order holds a candidate.
ClaimedOrder(dbs, a) ==
  LET refs == to_list(a[2])
      first == IF a[1] \in Elems(refs) THEN refs ELSE Append(refs, a[1])
      NotYet(name) == name \notin Elems(first)
  IN IF a[3] THEN first \o SelectSeq(DbNames(dbs), NotYet) ELSE first

HoldsCandidate(dbs, name, a) ==
  DbHas(dbs, name) /\ \E e \in DbEntries(dbs, name) : Passes(e, a)

SearchStep(i) ==
  MockupCall(i, "trace_part") /\ calls[i].tpc = "s1" /\ calls'[i].tpc = "s2"

TraceTakesFirstCandidate ==
  \A i \in Calls :
    SearchStep(i) =>
      LET a == calls[i].args
          order == ClaimedOrder(fp_databases, a)
          found == calls'[i].local.found
      IN /\ found = <<>> <=> NothingToFind(fp_databases, a)
         /\ found # <<>> =>
              \E n \in 1 .. Len(order) :
                /\ HoldsCandidate(fp_databases, order[n], a)
                /\ found[1] \in DbEntries(fp_databases, order[n])
                /\ Passes(found[1], a)
                /\ order[n] # a[1] => found[1] \notin DbEntries(fp_databases', order[n])
                /\ \A m \in 1 .. (n - 1) : ~HoldsCandidate(fp_databases, order[m], a)

C29_TraceSearchOrder == [][TraceTakesFirstCandidate]_vars

\* C29 witness: a trace_part has found its entry although the first database
\* of its order exists and holds entries, none of which passes the filters.
C29_Witness ==
  \E i \in Calls :
    /\ MockupCall(i, "trace_part")
    /\ calls[i].tpc = "s2"
    /\ calls[i].local.found # <<>>
    /\ LET a == calls[i].args
           order == ClaimedOrder(fp_databases, a)
       IN /\ Len(order) >= 2
          /\ DbHas(fp_databases, order[1])
          /\ DbEntries(fp_databases, order[1]) # {}
          /\ \A e \in DbEntries(fp_databases, order[1]) : ~Passes(e, a)
          /\ Passes(calls[i].local.found[1], a)

\* --------------------------------- specification with the tasks scheduled
\* The event loop runs every task that is ready, in the order they became
\* ready; asyncio.Lock wakes its waiters first come, first served, and the
\* waits inside the backend bodies are sleeps of a fixed length.  So the
\* first step of a task, the take-over of the lock by its first waiter and
\* the end of a sleep happen whenever they stay possible.
InitLock ==
  /\ backend \in Backends
  /\ fresh = "SYSTEM_READY"
  /\ nodeset = "all_async"
  /\ phase = "constructed"
  /\ linked = {}
  /\ handlers = EmptyDict
  /\ event_gens = EmptyDict
  /\ tasks_running = {}
  /\ state_vars = EmptyDict
  /\ fp_databases = <<>>
  /\ status = FpStatusFresh(fresh)
  /\ image_matching = "default"
  /\ task_lock = [locked |-> FALSE, waiters |-> <<>>]
  /\ calls = [i \in Calls |-> NoCall]
  /\ config = ShippedConfig
  /\ variables = EmptyDict
  /\ unsettable = {}

\* The argument lists: the fitting one of each method and, for the mockup's
\* add_part, the one whose part id is not a str.
LockArgs(b, name) ==
  IF b = "mockup" /\ name = "add_part"
  THEN GoodArgs(name) \cup {<<"DB1", FALSE, FALSE, NotAStr, "B1", "T1">>}
  ELSE GoodArgs(name)

\* The calls and their tasks; the publisher, which takes no lock and reads
\* the status only, is left out.
NextLock ==
  \/ initialize_nodeset
  \/ \E i \in Calls, k \in linked :
       \E args \in LockArgs(backend, MethodOf(k)) : ServiceAsync(i, k, args)
  \/ \E i \in Calls : TaskStart(i)
  \/ \E i \in Calls : TaskAcquire(i)
  \/ \E i \in Calls : TaskResume(i)
  \/ \E i \in Calls : TaskEmit(i)
  \/ \E i \in Calls : TaskFinally(i)
  \/ \E i \in Calls : DoneCallback(i)

\* The steps of call i's task up to the end of its backend body; at most one
\* of them is possible at a time.
TaskBodyStep(i) == TaskStart(i) \/ TaskAcquire(i) \/ TaskResume(i)

FairLock ==
  /\ InitLock /\ [][NextLock]_vars
  /\ \A i \in Calls : WF_vars(TaskBodyStep(i))

\* C30: under fair scheduling every dispatched mutating operation gets the
\* lock and finishes, and the lock is never held while no operation is
\* inside a body: a dispatched or waiting call of a mutating method leads to
\* its body having ended, and a held lock has a call in its critical section.
BodyEnded(i) == calls[i].tpc \in {"emit", "fin", "done", "removed"}

MutatingPending(i) ==
  /\ Invoked(i)
  /\ FuncOf(i) \in MutatingMethods
  /\ calls[i].tpc \in {"created", "wait", "s1", "s2"}

LockHasHolder == task_lock.locked => \E i \in Calls : InCritical(i)

WaitersWait ==
  \A n \in 1 .. Len(task_lock.waiters) : calls[task_lock.waiters[n]].tpc = "wait"

ErrorState(st) == st.run_state = "SYSTEM_ERROR" /\ st.error_type # "NO_ERROR"

StepOf(name) ==
  \E i \in Calls : MockupCall(i, name) /\ calls'[i].tpc # calls[i].tpc

LeavesErrorState == backend = "mockup" /\ ErrorState(status) /\ ~ErrorState(status')

C31_ErrorStateUntilReset == [][LeavesErrorState => StepOf("reset_system")]_vars

\* C31, the other operations: get_status, add_part and trace_part never
\* take the status out of the error state.
C31_OnlyResetOrImageMatching ==
  [][LeavesErrorState =>
       (StepOf("reset_system") \/ StepOf("set_image_matching_type"))]_vars

\* C31 scenario: a set_image_matching_type has returned after an add_part
\* met a duplicate, no reset_system was called, and the device is ready.
C31_Scenario ==
  /\ IsReady(status)
  /\ \A i \in Calls : ~MockupCall(i, "reset_system")
  /\ \E i, j \in Calls :
       /\ MockupCall(i, "add_part") /\ calls[i].local.id_duplicates # {}
       /\ BodyEnded(i)
       /\ MockupCall(j, "set_image_matching_type") /\ BodyEnded(j)

\* C32: on the mockup, an add_part or trace_part that enters its critical
\* section while the device is not SYSTEM_READY or carries an error changes
\* nothing: the step at which it takes the lock is also the one at which it
\* returns, and the status, every database and the image matching setting
\* are after it what they were before.
EntersBody(i) ==
  /\ calls[i].tpc \in {"created", "wait"}
  /\ calls'[i].tpc \notin {"created", "wait"}

NotReadyChangesNothing ==
  \A i \in Calls :
    (/\ MockupCall(i, "add_part") \/ MockupCall(i, "trace_part")
     /\ EntersBody(i)
     /\ ~(status.run_state = "SYSTEM_READY" /\ status.error_type = "NO_ERROR")) =>
      /\ calls'[i].tpc \notin {"s1", "s2"}
      /\ status' = status
      /\ fp_databases' = fp_databases
      /\ image_matching' = image_matching
      /\ task_lock'.locked = task_lock.locked

C32_NotReadyFrame == [][NotReadyChangesNothing]_vars

\* C32 witness: an add_part and a trace_part have both met a device in the
\* error state, and the databases still hold a part.
C32_Witness ==
  /\ ErrorState(status)
  /\ AllEntries(fp_databases) # {}
  /\ \E i, j \in Calls :
       /\ MockupCall(i, "add_part") /\ calls[i].local.id_duplicates # {} /\ BodyEnded(i)
       /\ MockupCall(j, "trace_part") /\ BodyEnded(j)
       /\ calls[j].res = NotExecuted

\* ------------------------------- specification of a server that has served
\* The server over the mockup after a first session: after start-up,
\* AddPart("DB1", FALSE, FALSE, "P1", "B1", "T1") and then
\* TracePart("DB2", "DB1", FALSE, "", FALSE, "", FALSE) have completed, so
\* P1 sits in DB2 and the two event generators carry what these calls set.
FirstLink == link_services("mockup", Interface("all_async"))

SvcOf(name) == CHOOSE k \in FirstLink.linked : FirstLink.handlers[k].func = name

FirstStatus == FpStatusUpdate("SYSTEM_READY", "RESULT_READY", "NO_ERROR", "")

InitServed ==
  /\ backend = "mockup"
  /\ fresh \in FreshRunStates
  /\ nodeset = "all_async"
  /\ phase = "running"
  /\ linked = FirstLink.linked
  /\ handlers = FirstLink.handlers
  /\ event_gens =
       [FirstLink.event_gens EXCEPT
          ![SvcOf("add_part")] =
            FillEvent(@, "mapping", [PartIDsOfDuplicates |-> ""]),
          ![SvcOf("trace_part")] =
            FillEvent(@, "mapping", TraceResult("P1", "B1", "T1", 99, 100, 97, 98))]
  /\ tasks_running = {PUBLISHER}
  /\ status = FirstStatus
  /\ state_vars = update_state(init_variables(ShippedConfig, EmptyDict).state_vars,
                               as_dict(FirstStatus))
  /\ image_matching = "default"
  /\ fp_databases = << [name |-> "DB1", entries |-> {}],
                       [name |-> "DB2", entries |-> {PartEntry("P1", "B1", "T1")}] >>
  /\ task_lock = [locked |-> FALSE, waiters |-> <<>>]
  /\ calls = [i \in Calls |-> NoCall]
  /\ config = ShippedConfig
  /\ variables = init_variables(ShippedConfig, EmptyDict).variables
  /\ unsettable = {}

\* The next calls: an add_part that checks ids for P1, a trace_part, and the
\* other services.
ServedArgs(name) ==
  CASE name = "add_part" -> {<<"DB1", TRUE, FALSE, "P1", "B1", "T1">>}
    [] name = "trace_part" -> {<<"DB1", <<"D","B","2">>, FALSE, NoChars, FALSE, NoChars, FALSE>>}
    [] OTHER -> GoodArgs(name)

NextServed ==
  \/ periodic_state_update
  \/ \E i \in Calls, k \in linked :
       \E args \in ServedArgs(MethodOf(k)) : ServiceAsync(i, k, args)
  \/ \E i \in Calls : TaskStart(i)
  \/ \E i \in Calls : TaskAcquire(i)
  \/ \E i \in Calls : TaskResume(i)
  \/ \E i \in Calls : TaskEmit(i)
  \/ \E i \in Calls : TaskFinally(i)
  \/ \E i \in Calls : DoneCallback(i)

SpecServed == InitServed /\ [][NextServed]_vars

\* C33: every result field an emitted completion event carries was produced
\* by the invocation the event completes: apart from the outcome field, each
\* field of the event is a field of that invocation's result, with its
\* value.
C33_EventFieldsOwn ==
  \A i \in Calls :
    (Invoked(i) /\ calls[i].emitted = 1) =>
      \A k \in (DOMAIN calls[i].event) \ {"ServiceExecutionResult"} :
        k \in DOMAIN calls[i].res /\ calls[i].event[k] = calls[i].res[k]

\* C33, the fields of the own result: an event of the only invocation of its
\* service since the start carries every field of that invocation's result.
C33_OwnFieldsCarried ==
  \A i \in Calls :
    (Invoked(i) /\ calls[i].emitted = 1 /\ OnlyCallOfService(i)) =>
      \A k \in DOMAIN calls[i].res :
        k \in DOMAIN calls[i].event /\ calls[i].event[k] = calls[i].res[k]

\* C33 scenario: the only trace_part since the start met a device in the
\* error state, returned the not-executed result, and its event names the
\* part the trace_part of the first session found.
C33_Scenario ==
  \E i \in Calls :
    /\ MockupCall(i, "trace_part") /\ OnlyCallOfService(i)
    /\ calls[i].res = NotExecuted
    /\ calls[i].emitted = 1
    /\ "PartID" \in DOMAIN calls[i].event
    /\ calls[i].event["PartID"] = "P1"

\* C34: on the mockup, the result of an add_part that rejected its part
\* because of duplicates names the part ids of the duplicates in
\* PartIDsOfDuplicates: the field is a text other than the empty one and
\* other than the text of None.
FoundDuplicates(i) ==
  calls[i].local.id_duplicates \cup calls[i].local.fp_duplicates

AddPartReturned(i) ==
  MockupCall(i, "add_part") /\ BodyEnded(i) /\ calls[i].res_kind = "mapping"

C34_DuplicatesNamed ==
  \A i \in Calls :
    (AddPartReturned(i) /\ FoundDuplicates(i) # {}) =>
      calls[i].res["PartIDsOfDuplicates"] \notin {"", "None"}

\* C34, no duplicate found: the field is the empty string.
C34_NoDuplicateEmpty ==
  \A i \in Calls :
    (AddPartReturned(i) /\ FoundDuplicates(i) = {}) =>
      calls[i].res["PartIDsOfDuplicates"] = ""

\* C34 scenario: an add_part was rejected for a fingerprint duplicate alone.
C34_Scenario ==
  \E i \in Calls :
    /\ AddPartReturned(i)
    /\ calls[i].local.id_duplicates = {}
    /\ calls[i].local.fp_duplicates # {}
    /\ status.error_type = "FP_DUPLICATE_FOUND"

\* C35: on the mockup, a trace_part that finds a part moves it: afterwards
\* the entry is in the target database, which exists, and has left the
\* database it was found in unless that is the target, the other databases
\* being as before; and no step of a trace_part changes the set of distinct
\* entries stored or the total number of stored entries.
RECURSIVE TotalEntries(_)
TotalEntries(dbs) ==
  IF dbs = <<>> THEN 0 ELSE Cardinality(Head(dbs).entries) + TotalEntries(Tail(dbs))

FoundIsMoved ==
  \A i \in Calls :
    (SearchStep(i) /\ calls'[i].local.found # <<>>) =>
      LET x == calls'[i].local.found[1]
          target == calls[i].args[1]
      IN /\ DbHas(fp_databases', target)
         /\ x \in DbEntries(fp_databases', target)
         /\ \E n \in 1 .. Len(fp_databases) :
              LET from == fp_databases[n].name IN
              /\ x \in fp_databases[n].entries
              /\ from # target => x \notin DbEntries(fp_databases', from)
              /\ \A m \in 1 .. Len(fp_databases) :
                   fp_databases[m].name \notin {from, target} =>
                     fp_databases'[m] = fp_databases[m]

TraceKeepsEntries ==
  StepOf("trace_part") => AllEntries(fp_databases') = AllEntries(fp_databases)

TraceKeepsTotal ==
  StepOf("trace_part") => TotalEntries(fp_databases') = TotalEntries(fp_databases)

C35_TraceMovesEntry == [][FoundIsMoved /\ TraceKeepsEntries /\ TraceKeepsTotal]_vars

\* C35, the move and the set of distinct entries.
C35_MoveKeepsDistinctEntries == [][FoundIsMoved /\ TraceKeepsEntries]_vars

\* C35 scenario: a trace_part has found a part of which the target database
\* already held an equal entry; one entry is stored where there were two.
C35_Scenario ==
  \E i \in Calls :
    /\ MockupCall(i, "trace_part")
    /\ calls[i].tpc = "s2"
    /\ calls[i].local.found # <<>>
    /\ calls[i].args[1] = "DB2"
    /\ \E j \in Calls :
         /\ MockupCall(j, "add_part") /\ BodyEnded(j)
         /\ calls[j].args[1] = "DB2"
         /\ PartEntry(calls[j].args[4], calls[j].args[5], calls[j].args[6])
              = calls[i].local.found[1]
    /\ \A n \in 1 .. Len(fp_databases) :
         fp_databases[n].name # "DB2" =>
           calls[i].local.found[1] \notin fp_databases[n].entries

====
